---- MODULE Spec2Model ----
(***************************************************************************)
(* Model of ComfyApp (src/src/scripts/app.ts).                             *)
(*                                                                         *)
(* Spec: the submission queue, queuePrompt with its pending list           *)
(* #queueItems and its flag #processingQueue.                              *)
(* SpecCompile: the prompt compiler, graphToPrompt.                        *)
(* SpecDynamic: the extension Comfy.DynamicPrompts (src/unnamed/part_000). *)
(* SpecApi: loadApiJson, the loading of a flat API-format document.        *)
(* SpecLoad: loadGraphData, the loading of a graph-format document.        *)
(* SpecEvents: the handlers of the api events, with clean().               *)
(* SpecFile: isApiJson and the JSON branch of handleFile.                  *)
(* SpecModels: the missing models that loadGraphData collects.             *)
(* SpecOverlap: loadGraphData calls that overlap at their awaits.          *)
(* SpecRoundTrip: graphToPrompt followed by loadApiJson of its output.     *)
(* SpecLive: queuePrompt while the user changes the graph.                 *)
(* SpecHandle: the branches of handleFile for the files with metadata.     *)
(* SpecConfigure: the wrapper around LGraph.prototype.configure.           *)
(*                                                                         *)
(* In Spec:                                                                *)
(* JavaScript runs one call at a time and a call gives up control only at  *)
(* an await.  `active` is the call that holds the thread (0 when none);    *)
(* a call that is suspended at an await has a pc "await...", and is        *)
(* resumed by the action that models the settling of the awaited promise.  *)
(* Variables marked "history" record what the code did and are read only   *)
(* by the properties.                                                      *)
(***************************************************************************)
EXTENDS Integers, Sequences, FiniteSets, TLC

\* ---------------------------------------------------------------- bounds
MaxCalls == 2
MaxBatch == 2

Calls == 1..MaxCalls
\* sequenceNumber argument: -1 (front of the server queue) or 0 (back)
Numbers == {-1, 0}
\* batchCount argument: one repetition, or the largest number considered
BatchCounts == {1, MaxBatch}
\* the arguments of the calls considered: one repetition at the front of
\* the server queue, or MaxBatch repetitions at its back
Arguments ==
  {a \in [number : Numbers, batchCount : BatchCounts] :
     (a.number = -1) <=> (a.batchCount = 1)}
\* queueNodeIds argument: left out
NodeIdFilters == {"undefined"}
\* The collaborators of one run. idToken: what getIdToken() resolves to
\* (null: not signed in); apiKey: what getApiKey() returns; store: what
\* becomes of executionStore.storePrompt (it stores the record, it throws,
\* or the responses carry no prompt_id and it is not called).
Environments ==
  { [idToken |-> "tok", apiKey |-> "null", store |-> "stores"],
    [idToken |-> "null", apiKey |-> "key", store |-> "throws"],
    [idToken |-> "null", apiKey |-> "null", store |-> "noPromptId"] }
\* node_errors of a response: missing, the empty record {}, or a record
\* with entries
NodeErrorValues == {"undefined", "empty", "errs"}

VARIABLES
  environment,      \* the collaborators, see Environments
  queueItems,       \* #queueItems
  processingQueue,  \* #processingQueue
  lastNodeErrors,   \* executionStore.lastNodeErrors
  apiAuthToken,     \* api.authToken ("absent": the property does not exist)
  apiApiKey,        \* api.apiKey
  storedPrompts,    \* the records that executionStore.storePrompt stored,
                    \* in order
  nextPromptId,     \* the id the server gives to the next prompt it accepts
  dialogs,          \* number of showErrorDialog calls
  promptQueued,     \* payload of the last promptQueued event dispatched
  promptQueuedCount,\* history: promptQueued events dispatched by each call
  pc,               \* position of each queuePrompt call
  active,           \* the call that holds the thread, 0 when none does
  args,             \* parameters of each call (locals are reset when
                    \* the call ends)
  tok,              \* comfyOrgAuthToken of each call
  key,              \* comfyOrgApiKey of each call
  cur,              \* the item destructured at line 1274
  i,                \* loop counter of line 1276
  p,                \* the compiled prompt of the repetition
  ret,              \* what the call returned
  popped,           \* history: times the item of call c was popped
  reps,             \* history: repetitions of the item whose beforeQueued ran
  afters,           \* history: repetitions of the item whose afterQueued ran
  accepted,         \* history: submissions of the item that the server accepted
  steps,            \* history: steps taken by the item's latest repetition
  open,             \* history: items with a repetition begun and not ended
  aborted,          \* history: the item's submission was rejected
  response,         \* history: how the worker's last api.queuePrompt call
                    \* settled ("none" while there is none)
  inFlight,         \* history: the item was appended during a network call
  compiled,         \* history: prompts compiled for the item
  sent,             \* history: the prompts given to api.queuePrompt for the
                    \* item, in order
  request,          \* the arguments of the api.queuePrompt call in flight
  \* --- the prompt compiler (SpecCompile)
  promptGraph,      \* the graph given to graphToPrompt
  promptOptions,    \* its options: sortNodes and queueNodeIds
  promptOutput,     \* the output of the prompt it returned
  \* --- the dynamic prompts extension (SpecDynamic)
  widget,           \* a widget of the node: value, dynamicPrompts flag,
                    \* which serializeValue it has, and whether the
                    \* extension has seen the node
  serialized,       \* what the last serialization of the widget returned
  \* --- the loaders (SpecApi)
  apiData,          \* the API-format document: its entries in the order of
                    \* Object.keys
  graph,            \* app.graph: nodes, links and last_link_id
  loadStatus,       \* how the load ended ("idle" before it)
  missingNodesReport, \* the type names given to #showMissingNodesError
  \* --- loadGraphData (SpecLoad)
  graphData,        \* the graph-format document given to loadGraphData:
                    \* its nodes, and whether graph.configure rejects it
  missingNodeTypes, \* the missingNodeTypes list of the load
  nodeOutputs,      \* app.nodeOutputs: the output cached for each
                    \* execution id that has one
  previews,         \* the preview urls stored for each execution id that
                    \* has some
  liveUrls,         \* the object urls created and not revoked
  lastExecutionError, \* executionStore.lastExecutionError
  domWidgets,       \* the ids of the nodes with a registered DOM widget
  \* --- the handlers of the api events (SpecEvents)
  nextUrl,          \* the object url that URL.createObjectURL returns next
  eventCount,       \* history: the events handled and clean() calls made
  lastEvent,        \* history: the last of them
  onExecutedCalls,  \* history: the onExecuted calls made by the last handler
  shownDialogs,     \* history: the dialogs opened by the last handler
  canvasDraws,      \* history: the canvas.draw calls of the last handler
  \* --- the JSON branch of handleFile (SpecFile)
  jsonContent,      \* the parsed content of the file
  apiJsonResult,    \* what isApiJson(jsonContent) returned ("none" before
                    \* the call)
  fileRoute,        \* the loader that reader.onload called ("none" before)
  \* --- the missing models of loadGraphData (SpecModels)
  embeddedModels,   \* the models collected from the nodes and the root of
                    \* the document
  modelFolders,     \* the files of each model folder that the model store
                    \* loaded
  showMissingModelsWarning, \* setting Comfy.Workflow.ShowMissingModelsWarning
  modelsChecked,    \* history: the models were looked up
  missingModels,    \* the missingModels list of the load
  \* --- graphToPrompt followed by loadApiJson (SpecRoundTrip)
  modes,            \* the mode of each node of the graph
  compiledFrom,     \* history: the graph and the modes that were compiled
  \* --- loadGraphData calls that overlap (SpecOverlap)
  loads,            \* the position and the document of each call
  started,          \* history: the calls in the order of their start
  configured,       \* history: the calls in the order in which they
                    \* configured the graph
  \* --- queuePrompt while the graph changes (SpecLive)
  queuedGraph,      \* history: app.graph as it was when each call appended
                    \* its item
  compileGraph,     \* app.graph as it was when the repetition in progress
                    \* called graphToPrompt
  submittedGraph,   \* history: the graph from which the prompt of the last
                    \* api.queuePrompt call was compiled
  \* --- the branches of handleFile (SpecHandle)
  file,             \* the file given to handleFile: its kind and what its
                    \* metadata reader finds in it
  fileLoad,         \* what handleFile did with it ("none" before the call)
  \* --- the wrapper of LGraph.configure (SpecConfigure)
  configuringGraphLevel, \* #configuringGraphLevel
  configureStack,   \* the configure calls in progress, outermost first:
                    \* the graph each configures and the level it found
  pendingError,     \* an exception is leaving a configure call
  configureLog      \* history: how the calls that ended did end

\* the state that queuePrompt shares with the loaders
storeVars == <<lastNodeErrors, dialogs>>
queueOnlyVars == <<environment, queueItems, processingQueue,
          apiAuthToken, apiApiKey, storedPrompts, nextPromptId,
          promptQueued, promptQueuedCount, pc, active, args, tok, key, cur,
          i, p, ret, popped, reps, afters, accepted, steps, open, aborted,
          response, inFlight, compiled, sent, request>>
queueVars == <<queueOnlyVars, storeVars>>
compilerVars == <<promptGraph, promptOptions, promptOutput>>
widgetVars == <<widget, serialized>>
\* what clean() resets besides lastNodeErrors
appStateVars == <<nodeOutputs, previews, liveUrls, lastExecutionError,
                  domWidgets>>
eventVars == <<nextUrl, eventCount, lastEvent, onExecutedCalls, shownDialogs,
               canvasDraws>>
loaderVars == <<apiData, graph, loadStatus, missingNodesReport, graphData,
                missingNodeTypes, appStateVars>>
fileVars == <<jsonContent, apiJsonResult, fileRoute>>
modelVars == <<embeddedModels, modelFolders, showMissingModelsWarning,
               modelsChecked, missingModels>>
tripVars == <<modes, compiledFrom>>
overlapVars == <<loads, started, configured>>
liveVars == <<queuedGraph, compileGraph, submittedGraph>>
handleVars == <<file, fileLoad>>
configureVars == <<configuringGraphLevel, configureStack, pendingError,
                   configureLog>>
laterVars == <<handleVars, configureVars>>
moreVars == <<liveVars, laterVars>>
extraVars == <<fileVars, modelVars, tripVars, overlapVars, moreVars>>
\* what queuePrompt does not touch
otherVars == <<compilerVars, widgetVars, loaderVars, eventVars, extraVars>>
\* the state that queuePrompt only reads
notLiveVars == <<compilerVars, widgetVars, loaderVars, eventVars, fileVars,
                 modelVars, tripVars, overlapVars, laterVars>>
vars == <<queueVars, otherVars>>

NoItem == [number |-> 0, batchCount |-> 0, queueNodeIds |-> "undefined", call |-> 0]
NoPrompt == <<0, 0>>
NoResponse == [kind |-> "none", node_errors |-> "undefined"]
NoRequest == [number |-> 0, prompt |-> NoPrompt]

\* the queue of a new ComfyApp (lines 127-135) and the history of a run in
\* which nothing has happened
QueueOnlyAtRest ==
  /\ queueItems = <<>>
  /\ processingQueue = FALSE
  /\ apiAuthToken = "absent"
  /\ apiApiKey = "absent"
  /\ storedPrompts = <<>>
  /\ nextPromptId = 1
  /\ promptQueued = [number |-> 0, batchCount |-> 0]
  /\ promptQueuedCount = [c \in Calls |-> 0]
  /\ pc = [c \in Calls |-> "init"]
  /\ active = 0
  /\ args = [c \in Calls |-> NoItem]
  /\ tok = [c \in Calls |-> "undefined"]
  /\ key = [c \in Calls |-> "undefined"]
  /\ cur = [c \in Calls |-> NoItem]
  /\ i = [c \in Calls |-> 0]
  /\ p = [c \in Calls |-> NoPrompt]
  /\ ret = [c \in Calls |-> "none"]
  /\ popped = [c \in Calls |-> 0]
  /\ reps = [c \in Calls |-> 0]
  /\ afters = [c \in Calls |-> 0]
  /\ accepted = [c \in Calls |-> 0]
  /\ steps = [c \in Calls |-> <<>>]
  /\ open = {}
  /\ aborted = [c \in Calls |-> FALSE]
  /\ response = NoResponse
  /\ inFlight = [c \in Calls |-> FALSE]
  /\ compiled = [c \in Calls |-> 0]
  /\ sent = [c \in Calls |-> <<>>]
  /\ request = NoRequest

\* no node errors are recorded and no error dialog has been shown
QueueAtRest ==
  /\ QueueOnlyAtRest
  /\ lastNodeErrors = "null"
  /\ dialogs = 0

\* graphToPrompt has not been called
CompilerAtRest ==
  /\ promptGraph = <<>>
  /\ promptOptions = [sortNodes |-> FALSE,
                      queueNodeIds |-> [given |-> FALSE, ids |-> {}]]
  /\ promptOutput = [compiled |-> FALSE, order |-> <<>>, entries |-> <<>>]

\* a value that is not a string, and the empty string
NumberValue == [type |-> "number", text |-> <<>>]
NotSerialized == [done |-> FALSE, type |-> "undefined", text |-> <<>>]

\* no widget is looked at
WidgetAtRest ==
  /\ widget = [value |-> NumberValue, dynamicPrompts |-> FALSE,
               serializeValue |-> "default", nodeCreated |-> FALSE]
  /\ serialized = NotSerialized

\* the graph before a load: one node, no link. The type name of a node is
\* a sequence of characters; a name without special characters is written
\* as one element.
OldGraph ==
  [nodes |-> <<[id |-> 100, type |-> <<"LoadImage">>, inputs |-> <<>>,
               widgets |-> <<[name |-> "image", value |-> "default"]>>,
               outputs |-> 1]>>,
   links |-> <<>>,
   last_link_id |-> 0]
NoReport == [shown |-> FALSE, types |-> <<>>]

\* no graph-format document
NoGraphData == [nodes |-> <<>>, malformed |-> FALSE]

\* no graph-format document is being loaded and nothing has run yet
GraphLoaderAtRest ==
  /\ graphData = NoGraphData
  /\ missingNodeTypes = <<>>
  /\ nodeOutputs = <<>>
  /\ previews = <<>>
  /\ liveUrls = {}
  /\ lastExecutionError = "null"
  /\ domWidgets = {}

\* nothing is being loaded
LoaderAtRest ==
  /\ apiData = <<>>
  /\ graph = OldGraph
  /\ loadStatus = "idle"
  /\ missingNodesReport = NoReport
  /\ GraphLoaderAtRest

\* an event: its type, the fields display_node, node, output and merge of an
\* executed event, displayNodeId of a preview, exception_message of an
\* execution_error
NoEvent ==
  [type |-> "none", display_node |-> 0, node |-> 0, output |-> <<>>,
   merge |-> "undefined", displayNodeId |-> "", exception_message |-> <<>>,
   hasMessage |-> FALSE]

\* no event has arrived
EventsAtRest ==
  /\ nextUrl = 1
  /\ eventCount = 0
  /\ lastEvent = NoEvent
  /\ onExecutedCalls = <<>>
  /\ shownDialogs = <<>>
  /\ canvasDraws = 0

\* no file was read
FileAtRest ==
  /\ jsonContent = [isObject |-> FALSE, values |-> <<>>, templates |-> 0]
  /\ apiJsonResult = "none"
  /\ fileRoute = "none"

\* no model was looked up
ModelsAtRest ==
  /\ embeddedModels = <<>>
  /\ modelFolders = <<>>
  /\ showMissingModelsWarning = FALSE
  /\ modelsChecked = FALSE
  /\ missingModels = <<>>

\* nothing was compiled for a reload
TripAtRest ==
  /\ modes = <<>>
  /\ compiledFrom = [done |-> FALSE, nodes |-> <<>>, links |-> <<>>,
                     modes |-> <<>>]

\* no loadGraphData call was made
OverlapAtRest ==
  /\ loads = <<>>
  /\ started = <<>>
  /\ configured = <<>>

\* no graph was recorded for an item or a prompt
NoGraph == [nodes |-> <<>>, links |-> <<>>, last_link_id |-> -1]

\* no item was appended and nothing was compiled
LiveAtRest ==
  /\ queuedGraph = [c \in Calls |-> NoGraph]
  /\ compileGraph = NoGraph
  /\ submittedGraph = NoGraph

\* no file was given to handleFile
NoFile == [kind |-> "none", workflow |-> FALSE, prompt |-> FALSE,
           parameters |-> FALSE]
HandleAtRest ==
  /\ file = NoFile
  /\ fileLoad = "none"

\* line 166: no configure call was made
ConfigureAtRest ==
  /\ configuringGraphLevel = 0
  /\ configureStack = <<>>
  /\ pendingError = FALSE
  /\ configureLog = <<>>

LaterAtRest == HandleAtRest /\ ConfigureAtRest

MoreAtRest == LiveAtRest /\ LaterAtRest

ExtraAtRest ==
  FileAtRest /\ ModelsAtRest /\ TripAtRest /\ OverlapAtRest /\ MoreAtRest

Init ==
  /\ environment \in Environments
  /\ QueueAtRest
  /\ CompilerAtRest
  /\ WidgetAtRest
  /\ LoaderAtRest
  /\ EventsAtRest
  /\ ExtraAtRest

\* ------------------------------------------------------------- helpers

\* faulty variant of WorkerRunning: the test is missing
WorkerRunning_Never == FALSE

\* line 1260: if (this.#processingQueue)
WorkerRunning == processingQueue

\* faulty variant of PopItem: shift() instead of pop()
PopItem_Shift(q) == [item |-> Head(q), rest |-> Tail(q)]

\* line 1274: this.#queueItems.pop(), the last element and the rest
PopItem(q) == [item |-> q[Len(q)], rest |-> SubSeq(q, 1, Len(q) - 1)]

\* `x ?? undefined` of lines 1269 and 1287
OrUndefined(x) == IF x = "null" THEN "undefined" ELSE x

\* faulty variant of OrNull: the node errors of the response are dropped
OrNull_AlwaysNull(x) == "null"

\* `x ?? null` of lines 1291 and 1314
OrNull(x) == IF x = "undefined" THEN "null" ELSE x

\* faulty variant of NodeErrorsLength: the number of nodes with errors
NodeErrorsLength_Count(ne) == IF ne = "errs" THEN 1 ELSE 0

\* line 1292: lastNodeErrors?.length. lastNodeErrors is a record keyed by
\* node id (or null): it has no length property, so the test reads undefined.
NodeErrorsLength(ne) == 0

\* faulty variant of Falsy: the empty record counts as no errors
Falsy_OrEmpty(ne) == ne \in {"null", "empty"}

\* line 1340: !executionStore.lastNodeErrors (an object, even {}, is truthy)
Falsy(ne) == ne = "null"

\* faulty variant of SubmissionNumber: the parameter of the call that runs
\* the loop instead of the number of the item
SubmissionNumber_Outer(c) == args[c].number

\* line 1288: `number` is the constant destructured from the item at line
\* 1274, which shadows the parameter of line 1253
SubmissionNumber(c) == cur[c].number

\* line 1276: i < batchCount
MoreRepetitions(c) == i[c] < cur[c].batchCount

\* line 1336-1338: an exception that leaves the try block runs the finally
\* clause and ends the call
ThrowInTry(c) ==
  /\ processingQueue' = FALSE
  /\ pc' = [pc EXCEPT ![c] = "threw"]
  /\ active' = 0
  /\ open' = open \ {cur[c].call}
  /\ args' = [args EXCEPT ![c] = NoItem]
  /\ tok' = [tok EXCEPT ![c] = "undefined"]
  /\ key' = [key EXCEPT ![c] = "undefined"]
  /\ cur' = [cur EXCEPT ![c] = NoItem]
  /\ i' = [i EXCEPT ![c] = 0]
  /\ p' = [p EXCEPT ![c] = NoPrompt]
  /\ response' = NoResponse

\* ------------------------------------------------------------- actions

\* faulty variant of QueuePrompt: the node errors are reset before the flag
\* is tested
QueuePrompt_ResetsFirst(c, number, batchCount, queueNodeIds) ==
  /\ active = 0
  /\ pc[c] = "init"
  /\ \A d \in Calls : d < c => pc[d] # "init"
  /\ LET item == [number |-> number, batchCount |-> batchCount,
                  queueNodeIds |-> queueNodeIds, call |-> c]
     IN /\ queueItems' = Append(queueItems, item)
        /\ IF WorkerRunning
             THEN /\ pc' = [pc EXCEPT ![c] = "returned"]
                  /\ ret' = [ret EXCEPT ![c] = "false"]
                  /\ lastNodeErrors' = "null"
                  /\ UNCHANGED <<processingQueue, args>>
             ELSE /\ processingQueue' = TRUE
                  /\ lastNodeErrors' = "null"
                  /\ pc' = [pc EXCEPT ![c] = "awaitToken"]
                  /\ args' = [args EXCEPT ![c] = item]
                  /\ ret' = ret
  /\ inFlight' = [inFlight EXCEPT
                    ![c] = \E d \in Calls : pc[d] = "awaitSubmit"]
  /\ UNCHANGED <<environment, apiAuthToken, apiApiKey, storedPrompts,
                 nextPromptId, dialogs, promptQueued, promptQueuedCount,
                 active, tok, key, cur, i, p, popped, reps, afters, accepted,
                 steps, open, aborted, response>>
  /\ UNCHANGED <<compiled, sent, request>>
  /\ queuedGraph' = [queuedGraph EXCEPT ![c] = graph]
  /\ UNCHANGED <<compileGraph, submittedGraph>>
  /\ UNCHANGED notLiveVars

\* lines 1252-1269: the call up to its first await. Calls are numbered in
\* the order in which they are made; the field `call` of an item names the
\* call that appended it and is read only by the properties. The item
\* holds number, batchCount and queueNodeIds and nothing of the graph.
QueuePrompt(c, number, batchCount, queueNodeIds) ==
  /\ active = 0
  /\ pc[c] = "init"
  /\ \A d \in Calls : d < c => pc[d] # "init"
  /\ LET item == [number |-> number, batchCount |-> batchCount,
                  queueNodeIds |-> queueNodeIds, call |-> c]
     IN /\ queueItems' = Append(queueItems, item)
        /\ IF WorkerRunning
             THEN /\ pc' = [pc EXCEPT ![c] = "returned"]
                  /\ ret' = [ret EXCEPT ![c] = "false"]
                  /\ UNCHANGED <<processingQueue, lastNodeErrors, args>>
             ELSE /\ processingQueue' = TRUE
                  /\ lastNodeErrors' = "null"
                  /\ pc' = [pc EXCEPT ![c] = "awaitToken"]
                  /\ args' = [args EXCEPT ![c] = item]
                  /\ ret' = ret
  /\ inFlight' = [inFlight EXCEPT
                    ![c] = \E d \in Calls : pc[d] = "awaitSubmit"]
  /\ UNCHANGED <<environment, apiAuthToken, apiApiKey, storedPrompts,
                 nextPromptId, dialogs, promptQueued, promptQueuedCount,
                 active, tok, key, cur, i, p, popped, reps, afters, accepted,
                 steps, open, aborted, response>>
  /\ UNCHANGED <<compiled, sent, request>>
  /\ queuedGraph' = [queuedGraph EXCEPT ![c] = graph]
  /\ UNCHANGED <<compileGraph, submittedGraph>>
  /\ UNCHANGED notLiveVars

\* lines 1268-1272: getIdToken() resolves, getApiKey() returns, the try begins
TokenResolve(c) ==
  /\ active = 0
  /\ pc[c] = "awaitToken"
  /\ tok' = [tok EXCEPT ![c] = OrUndefined(environment.idToken)]
  /\ key' = [key EXCEPT ![c] = environment.apiKey]
  /\ pc' = [pc EXCEPT ![c] = "while"]
  /\ active' = c
  /\ UNCHANGED <<environment, queueItems, processingQueue, lastNodeErrors,
                 apiAuthToken, apiApiKey, storedPrompts, nextPromptId,
                 dialogs, promptQueued, promptQueuedCount, args, cur, i, p,
                 ret, popped, reps, afters, accepted, steps, open, aborted,
                 response, inFlight>>
  /\ UNCHANGED <<compiled, sent, request>>
  /\ UNCHANGED otherVars

\* lines 1268-1269: getIdToken() rejects; the await is before the try, so
\* the finally clause of line 1336 does not run
TokenReject(c) ==
  /\ active = 0
  /\ pc[c] = "awaitToken"
  /\ pc' = [pc EXCEPT ![c] = "threw"]
  /\ args' = [args EXCEPT ![c] = NoItem]
  /\ UNCHANGED <<environment, queueItems, processingQueue, lastNodeErrors,
                 apiAuthToken, apiApiKey, storedPrompts, nextPromptId,
                 dialogs, promptQueued, promptQueuedCount, active, tok, key,
                 cur, i, p, ret, popped, reps, afters, accepted, steps, open,
                 aborted, response, inFlight>>
  /\ UNCHANGED <<compiled, sent, request>>
  /\ UNCHANGED otherVars

\* lines 1273-1274: the while test, true: pop the next item
WhilePop(c) ==
  /\ active = c
  /\ pc[c] = "while"
  /\ Len(queueItems) > 0
  /\ LET r == PopItem(queueItems)
     IN /\ queueItems' = r.rest
        /\ cur' = [cur EXCEPT ![c] = r.item]
        /\ popped' = [popped EXCEPT ![r.item.call] = @ + 1]
  /\ i' = [i EXCEPT ![c] = 0]
  /\ pc' = [pc EXCEPT ![c] = "for"]
  /\ UNCHANGED <<environment, processingQueue, lastNodeErrors, apiAuthToken,
                 apiApiKey, storedPrompts, nextPromptId, dialogs,
                 promptQueued, promptQueuedCount, active, args, tok, key, p,
                 ret, reps, afters, accepted, steps, open, aborted, response,
                 inFlight>>
  /\ UNCHANGED <<compiled, sent, request>>
  /\ UNCHANGED otherVars

\* lines 1273, 1336-1340: the while test, false: finally, dispatch, return
WhileExit(c) ==
  /\ active = c
  /\ pc[c] = "while"
  /\ Len(queueItems) = 0
  /\ processingQueue' = FALSE
  /\ promptQueued' = [number |-> args[c].number, batchCount |-> args[c].batchCount]
  /\ promptQueuedCount' = [promptQueuedCount EXCEPT ![c] = @ + 1]
  /\ ret' = [ret EXCEPT ![c] = IF Falsy(lastNodeErrors) THEN "true" ELSE "false"]
  /\ pc' = [pc EXCEPT ![c] = "returned"]
  /\ active' = 0
  /\ args' = [args EXCEPT ![c] = NoItem]
  /\ tok' = [tok EXCEPT ![c] = "undefined"]
  /\ key' = [key EXCEPT ![c] = "undefined"]
  /\ cur' = [cur EXCEPT ![c] = NoItem]
  /\ i' = [i EXCEPT ![c] = 0]
  /\ p' = [p EXCEPT ![c] = NoPrompt]
  /\ response' = NoResponse
  /\ UNCHANGED <<environment, queueItems, lastNodeErrors, apiAuthToken,
                 apiApiKey, storedPrompts, nextPromptId, dialogs, popped,
                 reps, afters, accepted, steps, open, aborted, inFlight>>
  /\ UNCHANGED <<compiled, sent, request>>
  /\ UNCHANGED otherVars

\* line 1276: the for test
ForTest(c) ==
  /\ active = c
  /\ pc[c] = "for"
  /\ pc' = [pc EXCEPT ![c] = IF MoreRepetitions(c) THEN "before" ELSE "while"]
  /\ UNCHANGED <<environment, queueItems, processingQueue, lastNodeErrors,
                 apiAuthToken, apiApiKey, storedPrompts, nextPromptId,
                 dialogs, promptQueued, promptQueuedCount, active, args, tok,
                 key, cur, i, p, ret, popped, reps, afters, accepted, steps,
                 open, aborted, response, inFlight>>
  /\ UNCHANGED <<compiled, sent, request>>
  /\ UNCHANGED otherVars

\* lines 1279-1284: the beforeQueued callbacks of the nodes and subgraphs
\* run, graphToPrompt is called with this.graph and the call suspends
BeforeQueued(c) ==
  /\ active = c
  /\ pc[c] = "before"
  /\ reps' = [reps EXCEPT ![cur[c].call] = @ + 1]
  /\ steps' = [steps EXCEPT ![cur[c].call] = <<"before">>]
  /\ open' = open \cup {cur[c].call}
  /\ pc' = [pc EXCEPT ![c] = "awaitCompile"]
  /\ active' = 0
  /\ UNCHANGED <<environment, queueItems, processingQueue, lastNodeErrors,
                 apiAuthToken, apiApiKey, storedPrompts, nextPromptId,
                 dialogs, promptQueued, promptQueuedCount, args, tok, key,
                 cur, i, p, ret, popped, afters, accepted, aborted, response,
                 inFlight>>
  /\ UNCHANGED <<compiled, sent, request>>
  /\ compileGraph' = graph
  /\ UNCHANGED <<queuedGraph, submittedGraph>>
  /\ UNCHANGED notLiveVars

\* lines 1279-1282: a beforeQueued callback throws
BeforeQueuedThrow(c) ==
  /\ active = c
  /\ pc[c] = "before"
  /\ reps' = [reps EXCEPT ![cur[c].call] = @ + 1]
  /\ steps' = [steps EXCEPT ![cur[c].call] = <<"before">>]
  /\ ThrowInTry(c)
  /\ UNCHANGED <<environment, queueItems, lastNodeErrors, apiAuthToken,
                 apiApiKey, storedPrompts, nextPromptId, dialogs,
                 promptQueued, promptQueuedCount, ret, popped, afters,
                 accepted, aborted, inFlight>>
  /\ UNCHANGED <<compiled, sent, request>>
  /\ UNCHANGED otherVars

\* faulty variant of CompileResolve: the prompt is compiled from the graph
\* as it was when the item was appended
CompileResolve_Snapshot(c) ==
  /\ active = 0
  /\ pc[c] = "awaitCompile"
  /\ p' = [p EXCEPT ![c] = <<cur[c].call, i[c] + 1>>]
  /\ apiAuthToken' = tok[c]
  /\ apiApiKey' = OrUndefined(key[c])
  /\ compiled' = [compiled EXCEPT ![cur[c].call] = @ + 1]
  /\ request' = [number |-> SubmissionNumber(c), prompt |-> p'[c]]
  /\ sent' = [sent EXCEPT ![cur[c].call] = Append(@, p'[c])]
  /\ steps' = [steps EXCEPT ![cur[c].call] = @ \o <<"compile", "submit">>]
  /\ response' = NoResponse
  /\ pc' = [pc EXCEPT ![c] = "awaitSubmit"]
  /\ UNCHANGED <<environment, queueItems, processingQueue, lastNodeErrors,
                 storedPrompts, nextPromptId, dialogs, promptQueued,
                 promptQueuedCount, active, args, tok, key, cur, i, ret,
                 popped, reps, afters, accepted, open, aborted, inFlight>>
  /\ submittedGraph' = queuedGraph[cur[c].call]
  /\ compileGraph' = NoGraph
  /\ queuedGraph' = queuedGraph
  /\ UNCHANGED notLiveVars

\* lines 1284-1288: graphToPrompt resolves, the credentials are attached,
\* api.queuePrompt is called and the call suspends. The prompt describes
\* the graph as graphToPrompt read it, at some moment between its call and
\* its resolution: the two ends are taken here.
CompileResolve(c) ==
  /\ active = 0
  /\ pc[c] = "awaitCompile"
  /\ p' = [p EXCEPT ![c] = <<cur[c].call, i[c] + 1>>]
  /\ apiAuthToken' = tok[c]
  /\ apiApiKey' = OrUndefined(key[c])
  /\ compiled' = [compiled EXCEPT ![cur[c].call] = @ + 1]
  /\ request' = [number |-> SubmissionNumber(c), prompt |-> p'[c]]
  /\ sent' = [sent EXCEPT ![cur[c].call] = Append(@, p'[c])]
  /\ steps' = [steps EXCEPT ![cur[c].call] = @ \o <<"compile", "submit">>]
  /\ response' = NoResponse
  /\ pc' = [pc EXCEPT ![c] = "awaitSubmit"]
  /\ UNCHANGED <<environment, queueItems, processingQueue, lastNodeErrors,
                 storedPrompts, nextPromptId, dialogs, promptQueued,
                 promptQueuedCount, active, args, tok, key, cur, i, ret,
                 popped, reps, afters, accepted, open, aborted, inFlight>>
  /\ submittedGraph' \in {compileGraph, graph}
  /\ compileGraph' = NoGraph
  /\ queuedGraph' = queuedGraph
  /\ UNCHANGED notLiveVars

\* line 1284: graphToPrompt rejects
CompileReject(c) ==
  /\ active = 0
  /\ pc[c] = "awaitCompile"
  /\ ThrowInTry(c)
  /\ UNCHANGED <<environment, queueItems, lastNodeErrors, apiAuthToken,
                 apiApiKey, storedPrompts, nextPromptId, dialogs,
                 promptQueued, promptQueuedCount, ret, popped, reps, afters,
                 accepted, steps, aborted, inFlight>>
  /\ UNCHANGED <<compiled, sent, request>>
  /\ UNCHANGED otherVars

\* faulty variant of SubmitResolve: an exception of storePrompt is not
\* caught at line 1304 and reaches the catch clause of line 1306
SubmitResolve_StoreThrowEscapes(c, ne) ==
  /\ active = 0
  /\ pc[c] = "awaitSubmit"
  /\ apiAuthToken' = "absent"
  /\ apiApiKey' = "absent"
  /\ lastNodeErrors' = OrNull(ne)
  /\ IF NodeErrorsLength(OrNull(ne)) = 0 /\ environment.store = "stores"
       THEN storedPrompts' = Append(storedPrompts,
              [id |-> nextPromptId, nodes |-> p[c]])
       ELSE storedPrompts' = storedPrompts
  /\ nextPromptId' = nextPromptId + 1
  /\ accepted' = [accepted EXCEPT ![cur[c].call] = @ + 1]
  /\ response' = [kind |-> "resolved", node_errors |-> ne]
  /\ request' = NoRequest
  /\ IF environment.store = "throws"
       THEN /\ dialogs' = dialogs + 1
            /\ open' = open \ {cur[c].call}
            /\ pc' = [pc EXCEPT ![c] = "while"]
       ELSE /\ pc' = [pc EXCEPT ![c] = "after"]
            /\ UNCHANGED <<dialogs, open>>
  /\ active' = c
  /\ UNCHANGED <<environment, queueItems, processingQueue,
                 promptQueued, promptQueuedCount, args, tok, key, cur, i, p,
                 ret, popped, reps, afters, steps, aborted, inFlight>>
  /\ UNCHANGED <<compiled, sent>>
  /\ UNCHANGED otherVars

\* lines 1288-1305: api.queuePrompt resolves with node_errors ne
SubmitResolve(c, ne) ==
  /\ active = 0
  /\ pc[c] = "awaitSubmit"
  /\ apiAuthToken' = "absent"
  /\ apiApiKey' = "absent"
  /\ lastNodeErrors' = OrNull(ne)
  /\ IF NodeErrorsLength(OrNull(ne)) > 0
       THEN storedPrompts' = storedPrompts
       ELSE IF environment.store = "stores"
              THEN storedPrompts' = Append(storedPrompts,
                     [id |-> nextPromptId, nodes |-> p[c]])
              ELSE storedPrompts' = storedPrompts
  /\ nextPromptId' = nextPromptId + 1
  /\ accepted' = [accepted EXCEPT ![cur[c].call] = @ + 1]
  /\ response' = [kind |-> "resolved", node_errors |-> ne]
  /\ request' = NoRequest
  /\ pc' = [pc EXCEPT ![c] = "after"]
  /\ active' = c
  /\ UNCHANGED <<environment, queueItems, processingQueue, dialogs,
                 promptQueued, promptQueuedCount, args, tok, key, cur, i, p,
                 ret, popped, reps, afters, steps, open, aborted, inFlight>>
  /\ UNCHANGED <<compiled, sent>>
  /\ UNCHANGED otherVars

\* faulty variant of SubmitReject: the break of line 1317 is missing
SubmitReject_NoBreak(c, isPEE, ne) ==
  /\ active = 0
  /\ pc[c] = "awaitSubmit"
  /\ dialogs' = dialogs + 1
  /\ lastNodeErrors' = IF isPEE THEN OrNull(ne) ELSE lastNodeErrors
  /\ aborted' = [aborted EXCEPT ![cur[c].call] = TRUE]
  /\ response' = [kind |-> IF isPEE THEN "PromptExecutionError" ELSE "Error",
                  node_errors |-> ne]
  /\ request' = NoRequest
  /\ open' = open \ {cur[c].call}
  /\ pc' = [pc EXCEPT ![c] = "after"]
  /\ active' = c
  /\ UNCHANGED <<environment, queueItems, processingQueue, apiAuthToken,
                 apiApiKey, storedPrompts, nextPromptId, promptQueued,
                 promptQueuedCount, args, tok, key, cur, i, p, ret, popped,
                 reps, afters, accepted, steps, inFlight>>
  /\ UNCHANGED <<compiled, sent>>
  /\ UNCHANGED otherVars

\* lines 1288, 1306-1318: api.queuePrompt rejects; isPEE: the error is a
\* PromptExecutionError, whose response carries node_errors ne (another
\* error carries none)
SubmitReject(c, isPEE, ne) ==
  /\ active = 0
  /\ pc[c] = "awaitSubmit"
  /\ dialogs' = dialogs + 1
  /\ lastNodeErrors' = IF isPEE THEN OrNull(ne) ELSE lastNodeErrors
  /\ aborted' = [aborted EXCEPT ![cur[c].call] = TRUE]
  /\ response' = [kind |-> IF isPEE THEN "PromptExecutionError" ELSE "Error",
                  node_errors |-> ne]
  /\ request' = NoRequest
  /\ open' = open \ {cur[c].call}
  /\ pc' = [pc EXCEPT ![c] = "while"]
  /\ active' = c
  /\ UNCHANGED <<environment, queueItems, processingQueue, apiAuthToken,
                 apiApiKey, storedPrompts, nextPromptId, promptQueued,
                 promptQueuedCount, args, tok, key, cur, i, p, ret, popped,
                 reps, afters, accepted, steps, inFlight>>
  /\ UNCHANGED <<compiled, sent>>
  /\ UNCHANGED otherVars

\* faulty variant of AfterQueued: the afterQueued callbacks are not run
AfterQueued_Skipped(c) ==
  /\ active = c
  /\ pc[c] = "after"
  /\ afters' = afters
  /\ steps' = steps
  /\ open' = open \ {cur[c].call}
  /\ pc' = [pc EXCEPT ![c] = "awaitUpdate"]
  /\ active' = 0
  /\ UNCHANGED <<environment, queueItems, processingQueue, lastNodeErrors,
                 apiAuthToken, apiApiKey, storedPrompts, nextPromptId,
                 dialogs, promptQueued, promptQueuedCount, args, tok, key,
                 cur, i, p, ret, popped, reps, accepted, aborted, response,
                 inFlight>>
  /\ UNCHANGED <<compiled, sent, request>>
  /\ UNCHANGED otherVars


\* lines 1322-1333: the afterQueued callbacks of the nodes and subgraphs
\* run, the canvas is drawn, ui.queue.update is called and the call suspends
AfterQueued(c) ==
  /\ active = c
  /\ pc[c] = "after"
  /\ afters' = [afters EXCEPT ![cur[c].call] = @ + 1]
  /\ steps' = [steps EXCEPT ![cur[c].call] = @ \o <<"after">>]
  /\ open' = open \ {cur[c].call}
  /\ pc' = [pc EXCEPT ![c] = "awaitUpdate"]
  /\ active' = 0
  /\ UNCHANGED <<environment, queueItems, processingQueue, lastNodeErrors,
                 apiAuthToken, apiApiKey, storedPrompts, nextPromptId,
                 dialogs, promptQueued, promptQueuedCount, args, tok, key,
                 cur, i, p, ret, popped, reps, accepted, aborted, response,
                 inFlight>>
  /\ UNCHANGED <<compiled, sent, request>>
  /\ UNCHANGED otherVars


\* lines 1333-1334, 1276: ui.queue.update resolves, i++
UpdateResolve(c) ==
  /\ active = 0
  /\ pc[c] = "awaitUpdate"
  /\ i' = [i EXCEPT ![c] = @ + 1]
  /\ pc' = [pc EXCEPT ![c] = "for"]
  /\ active' = c
  /\ UNCHANGED <<environment, queueItems, processingQueue, lastNodeErrors,
                 apiAuthToken, apiApiKey, storedPrompts, nextPromptId,
                 dialogs, promptQueued, promptQueuedCount, args, tok, key,
                 cur, p, ret, popped, reps, afters, accepted, steps, open,
                 aborted, response, inFlight>>
  /\ UNCHANGED <<compiled, sent, request>>
  /\ UNCHANGED otherVars


Next ==
  \/ \E c \in Calls, a \in Arguments, f \in NodeIdFilters :
       QueuePrompt(c, a.number, a.batchCount, f)
  \/ \E c \in Calls : TokenResolve(c)
  \/ \E c \in Calls : TokenReject(c)
  \/ \E c \in Calls : WhilePop(c)
  \/ \E c \in Calls : WhileExit(c)
  \/ \E c \in Calls : ForTest(c)
  \/ \E c \in Calls : BeforeQueued(c)
  \/ \E c \in Calls : BeforeQueuedThrow(c)
  \/ \E c \in Calls : CompileResolve(c)
  \/ \E c \in Calls : CompileReject(c)
  \/ \E c \in Calls, ne \in NodeErrorValues : SubmitResolve(c, ne)
  \/ \E c \in Calls, ne \in NodeErrorValues : SubmitReject(c, TRUE, ne)
  \/ \E c \in Calls : SubmitReject(c, FALSE, "undefined")
  \/ \E c \in Calls : AfterQueued(c)
  \/ \E c \in Calls : UpdateResolve(c)

Spec == Init /\ [][Next]_vars

\* ---------------------------------------------------------- properties

\* positions of a call that has set the flag and has not ended
WorkerPcs == {"awaitToken", "while", "for", "before", "awaitCompile",
              "awaitSubmit", "after", "awaitUpdate"}
Workers == {c \in Calls : pc[c] \in WorkerPcs}
Ended(c) == pc[c] \in {"init", "returned", "threw"}
Pending == {queueItems[k].call : k \in 1..Len(queueItems)}

\* C1: under every interleaving of queuePrompt calls at their await points,
\* at most one call is between setting the flag and its end, and while there
\* is such a call the flag is set.
C1_SingleWorker ==
  /\ Cardinality(Workers) <= 1
  /\ Workers # {} => processingQueue

\* a second call arrived while the worker was suspended in the network call
\* and did not become a worker
C1_Witness ==
  \E c, d \in Calls :
    /\ pc[c] = "awaitSubmit"
    /\ pc[d] = "returned" /\ ret[d] = "false"
    /\ d \in Pending

\* C3: a call made while the flag is set appends its item, returns false
\* in the same step (no suspension), and changes nothing else: no callback
\* runs, nothing is compiled or submitted, the flag, the node errors, the
\* credentials, the dialogs and the other calls stay as they were.
C3_AbsorbedCall ==
  [][\A c \in Calls :
       (pc[c] = "init" /\ pc'[c] # "init" /\ processingQueue) =>
         /\ Len(queueItems') = Len(queueItems) + 1
         /\ SubSeq(queueItems', 1, Len(queueItems)) = queueItems
         /\ queueItems'[Len(queueItems')].call = c
         /\ pc'[c] = "returned"
         /\ ret'[c] = "false"
         /\ \A d \in Calls \ {c} : pc'[d] = pc[d]
         /\ UNCHANGED <<processingQueue, lastNodeErrors, apiAuthToken,
                        apiApiKey, storedPrompts, dialogs, promptQueuedCount,
                        active, reps, afters, accepted, steps, popped>>
    ]_vars

\* a call has been absorbed while a repetition was in progress
C3_Witness ==
  \E c, d \in Calls :
    /\ pc[c] = "awaitCompile"
    /\ ret[d] = "false" /\ d \in Pending
    /\ processingQueue

\* C4: while a repetition of an item is open (its beforeQueued callbacks
\* have started and it has neither run its afterQueued callbacks nor been
\* aborted), no repetition begins and no step of another item is taken;
\* at most one repetition is open and a pending item has seen no step.
C4_NoInterleaving ==
  [][/\ \A id \in open : \A id2 \in Calls :
          /\ reps'[id2] = reps[id2]
          /\ id2 # id => /\ steps'[id2] = steps[id2]
                         /\ accepted'[id2] = accepted[id2]
                         /\ afters'[id2] = afters[id2]
     /\ Cardinality(open') <= 1
     /\ \A k \in 1..Len(queueItems') :
          /\ reps'[queueItems'[k].call] = 0
          /\ steps'[queueItems'[k].call] = <<>>
    ]_vars

\* a repetition is suspended in the network call while another item waits
C4_Witness ==
  \E c \in Calls :
    /\ pc[c] = "awaitSubmit"
    /\ open = {cur[c].call}
    /\ Pending # {}
    /\ cur[c].call \notin Pending

\* C5: the item the worker picks was appended after every item that stays
\* pending (calls are numbered in the order they are made), and the others
\* stay in the list in their order.
C5_LastInFirstOut ==
  [][\A c \in Calls :
       (pc[c] = "while" /\ pc'[c] = "for") =>
         /\ \A k \in 1..Len(queueItems') : queueItems'[k].call < cur'[c].call
         /\ Len(queueItems') = Len(queueItems) - 1
         /\ \A k \in 1..Len(queueItems') : queueItems'[k] \in
              {queueItems[j] : j \in 1..Len(queueItems)}
    ]_vars

\* the worker picked the item of a later call before its own, older item
C5_Witness ==
  \E c \in Calls :
    /\ pc[c] = "for"
    /\ cur[c].call > c
    /\ c \in Pending

\* no queuePrompt call is in progress
Quiescent == \A c \in Calls : Ended(c)

\* C2: no item is picked twice, and once no call is in progress every
\* item that was appended while a submission was in flight has been removed
\* from the pending list and was picked exactly once.
C2_AllProcessedOnce ==
  /\ \A d \in Calls : popped[d] <= 1
  /\ Quiescent =>
       \A d \in Calls : inFlight[d] => (d \notin Pending /\ popped[d] = 1)

\* C6: when no worker is active (flag false, no call in progress) the
\* pending list is empty.
C6_IdleImpliesEmpty ==
  (~processingQueue /\ Quiescent) => queueItems = <<>>

\* C7: a rejected submission shows one error dialog and leaves the worker
\* at the while test with the flag set and the pending list untouched; an
\* item whose submission was rejected gets no further repetition; and the
\* worker leaves the while test by returning only when the list is empty,
\* otherwise by picking an item.
C7_TransportFailure ==
  [][\A c \in Calls :
       /\ (pc[c] = "awaitSubmit" /\ pc'[c] # "awaitSubmit"
             /\ response'.kind # "resolved") =>
            /\ dialogs' = dialogs + 1
            /\ aborted'[cur[c].call]
            /\ pc'[c] = "while"
            /\ processingQueue'
            /\ queueItems' = queueItems
       /\ aborted[c] => reps'[c] = reps[c]
       /\ (pc[c] = "while" /\ pc'[c] # "while") =>
            IF queueItems = <<>> THEN pc'[c] = "returned" ELSE pc'[c] = "for"
    ]_vars

\* the first submission of an item of two repetitions was rejected while
\* another item is pending
C7_Witness ==
  \E c \in Calls :
    /\ pc[c] = "while"
    /\ cur[c] # NoItem
    /\ aborted[cur[c].call]
    /\ cur[c].batchCount = 2 /\ i[c] = 0
    /\ Pending # {}
    /\ dialogs = 1

\* C8: a submission that resolves with per-node errors records them as the
\* last node errors, shows no dialog and leaves the worker in its loop; with
\* those errors recorded the worker runs the afterQueued callbacks, awaits
\* the queue update, counts the repetition and goes on to the next
\* repetition or the next pending item.
C8_NodeErrorsNonFatal ==
  [][\A c \in Calls :
       /\ (pc[c] = "awaitSubmit" /\ pc'[c] # "awaitSubmit"
             /\ response'.kind = "resolved"
             /\ response'.node_errors = "errs") =>
            /\ lastNodeErrors' = "errs"
            /\ dialogs' = dialogs
            /\ ~aborted'[cur[c].call]
            /\ pc'[c] = "after"
            /\ processingQueue'
            /\ queueItems' = queueItems
       /\ (response.kind = "resolved" /\ lastNodeErrors = "errs"
             /\ pc'[c] # pc[c]) =>
            /\ pc[c] = "after" =>
                 /\ pc'[c] = "awaitUpdate"
                 /\ afters'[cur[c].call] = afters[cur[c].call] + 1
                 /\ dialogs' = dialogs
            /\ pc[c] = "awaitUpdate" =>
                 /\ pc'[c] = "for"
                 /\ i'[c] = i[c] + 1
                 /\ cur'[c] = cur[c]
            /\ pc[c] = "for" =>
                 pc'[c] = IF i[c] < cur[c].batchCount THEN "before" ELSE "while"
            /\ (pc[c] = "while" /\ queueItems # <<>>) => pc'[c] = "for"
    ]_vars

\* after per-node errors in its first repetition an item is in its second
\* repetition, and no dialog was shown
C8_Witness ==
  \E c \in Calls :
    /\ pc[c] = "awaitCompile"
    /\ i[c] = 1
    /\ lastNodeErrors = "errs"
    /\ response.kind = "resolved"
    /\ dialogs = 0

\* C9: whenever no api.queuePrompt call is in flight, the API client holds
\* neither an auth token nor an API key.
C9_CredentialsCleared ==
  (\A c \in Calls : pc[c] # "awaitSubmit") =>
    /\ apiAuthToken \in {"absent", "undefined"}
    /\ apiApiKey \in {"absent", "undefined"}

\* the order of the steps of a repetition
RepetitionOrder == <<"before", "compile", "submit", "after">>
IsPrefix(s, t) ==
  /\ Len(s) <= Len(t)
  /\ \A k \in 1..Len(s) : s[k] = t[k]
\* a repetition begins or an item is picked in this step
RepetitionOrItemBegins ==
  \E id \in Calls : reps'[id] > reps[id] \/ popped'[id] > popped[id]

\* C10 as stated: the steps of a repetition run in the order beforeQueued,
\* compile, submit, afterQueued, and when the next repetition or the next
\* item begins every repetition that ran its beforeQueued callbacks has run
\* its afterQueued callbacks.
C10_AfterQueuedAlways ==
  [][/\ \A id \in Calls : IsPrefix(steps'[id], RepetitionOrder)
     /\ RepetitionOrItemBegins => \A id \in Calls : afters[id] = reps[id]
    ]_vars

\* C10 as amended: the steps of a repetition run in the order beforeQueued,
\* compile, submit, afterQueued, and when the next repetition or the next
\* item begins the repetitions that have run their afterQueued callbacks
\* are exactly those whose submission the server accepted.
C10_AfterQueuedOnSuccess ==
  [][/\ \A id \in Calls : IsPrefix(steps'[id], RepetitionOrder)
     /\ RepetitionOrItemBegins => \A id \in Calls : afters[id] = accepted[id]
    ]_vars

\* an item's submission was rejected, so that it ran beforeQueued without
\* afterQueued, and the worker has since completed a repetition of
\* another item
C10_Witness ==
  \E c, id \in Calls :
    /\ aborted[id] /\ afters[id] < reps[id]
    /\ cur[c].call # id
    /\ pc[c] = "awaitUpdate"
    /\ steps[cur[c].call] = RepetitionOrder

\* the sequence s has no element twice
NoDuplicates(s) == \A j, k \in 1..Len(s) : s[j] = s[k] => j = k

\* C11: every api.queuePrompt call carries the sequence number of the item
\* being processed and the prompt compiled in the same repetition, which
\* was given to no earlier call; each compilation is followed by one call;
\* after a rejected submission the item is neither compiled nor submitted
\* again; and an item whose for loop ends with all its submissions accepted
\* was compiled and submitted exactly batchCount times.
C11_OnePromptOneCall ==
  [][/\ \A c \in Calls :
          /\ pc'[c] = "awaitSubmit" =>
               /\ request'.number = cur'[c].number
               /\ request'.prompt = p'[c]
               /\ p'[c] = <<cur'[c].call, i'[c] + 1>>
               /\ compiled'[cur'[c].call] = i'[c] + 1
               /\ sent'[cur'[c].call][Len(sent'[cur'[c].call])] = p'[c]
          /\ (pc[c] = "for" /\ pc'[c] = "while") =>
               /\ accepted[cur[c].call] = cur[c].batchCount
               /\ compiled[cur[c].call] = cur[c].batchCount
               /\ Len(sent[cur[c].call]) = cur[c].batchCount
     /\ \A id \in Calls :
          /\ NoDuplicates(sent'[id])
          /\ Len(sent'[id]) = compiled'[id]
          /\ Len(sent'[id]) <= accepted'[id] + 1
          /\ aborted[id] => (sent'[id] = sent[id] /\ compiled'[id] = compiled[id])
    ]_vars

\* the worker has completed both repetitions of an item that another call
\* appended with a sequence number different from the worker's own
C11_Witness ==
  \E c \in Calls :
    /\ pc[c] = "while"
    /\ cur[c] # NoItem
    /\ cur[c].call # c
    /\ cur[c].number # args[c].number
    /\ cur[c].batchCount = 2
    /\ accepted[cur[c].call] = 2
    /\ Len(sent[cur[c].call]) = 2

\* a submission of call c is accepted in this step
SubmissionAccepted(c) == pc[c] = "awaitSubmit" /\ response'.kind = "resolved"
\* the responses of the server carry a prompt_id
HasPromptId == environment.store # "noPromptId"
\* the record of the submission accepted in this step
AcceptedRecord == [id |-> nextPromptId, nodes |-> request.prompt]
\* no two stored records have the same prompt_id
DistinctIds(s) == \A j, k \in 1..Len(s) : s[j].id = s[k].id => j = k

\* C12 as stated: every accepted submission whose response carries a
\* prompt_id is in the execution store exactly once afterwards, under that
\* prompt_id and with the node ids of the submitted prompt, also when the
\* response reports per-node errors.
C12_StoredExactlyOnce ==
  [][\A c \in Calls :
       (SubmissionAccepted(c) /\ HasPromptId) =>
         /\ storedPrompts' = Append(storedPrompts, AcceptedRecord)
         /\ DistinctIds(storedPrompts')
    ]_vars

\* C12 as amended: an accepted submission whose response carries a
\* prompt_id is given once to executionStore.storePrompt, with that
\* prompt_id and the node ids of the submitted prompt, also when the
\* response reports per-node errors; when storePrompt stores it, it is in
\* the store exactly once; when storePrompt throws, nothing is stored, no
\* dialog is shown and the repetition goes on; no other step changes the
\* store.
C12_StoredUnlessStoreThrows ==
  [][/\ \A c \in Calls :
          SubmissionAccepted(c) =>
            /\ environment.store = "stores" =>
                 /\ storedPrompts' = Append(storedPrompts, AcceptedRecord)
                 /\ DistinctIds(storedPrompts')
            /\ environment.store # "stores" =>
                 /\ storedPrompts' = storedPrompts
                 /\ dialogs' = dialogs
            /\ pc'[c] = "after"
     /\ (\A c \in Calls : ~SubmissionAccepted(c)) =>
          storedPrompts' = storedPrompts
    ]_vars

\* the second accepted submission reported per-node errors and was stored
C12_Witness ==
  \E c \in Calls :
    /\ pc[c] = "after"
    /\ response.kind = "resolved" /\ response.node_errors = "errs"
    /\ Len(storedPrompts) = 2
    /\ storedPrompts[2] = [id |-> 2, nodes |-> p[c]]

\* storePrompt throws in this run
StoreThrows == environment.store = "throws"

\* C32: an exception of storePrompt is swallowed. The step in which the
\* submission is accepted shows no dialog, leaves the pending list, the
\* item, the loop counter and the flag alone and goes on to the afterQueued
\* callbacks, which run in the next step of the call; an item whose
\* submissions were all accepted completes its batchCount repetitions; and
\* once every call has ended without an exception and without a rejected
\* submission, every item was picked once and ran all its repetitions
\* with their afterQueued callbacks, no dialog was shown, and nothing was
\* stored.
C32_StoreFailureSwallowed ==
  [][StoreThrows =>
       /\ \A c \in Calls :
            /\ SubmissionAccepted(c) =>
                 /\ pc'[c] = "after"
                 /\ UNCHANGED <<dialogs, queueItems, cur, i, processingQueue,
                                storedPrompts, afters, aborted>>
            /\ (pc[c] = "after" /\ pc'[c] # "after") =>
                 /\ pc'[c] = "awaitUpdate"
                 /\ afters'[cur[c].call] = afters[cur[c].call] + 1
                 /\ dialogs' = dialogs
            /\ (pc[c] = "for" /\ pc'[c] = "while") =>
                 afters[cur[c].call] = cur[c].batchCount
       /\ (/\ \A c \in Calls : pc'[c] = "returned"
           /\ \A c \in Calls : ~aborted'[c]) =>
            /\ dialogs' = 0
            /\ storedPrompts' = <<>>
            /\ queueItems' = <<>>
            /\ \A c \in Calls :
                 /\ popped'[c] = 1
                 /\ afters'[c] = reps'[c]
                 /\ afters'[c] \in BatchCounts
    ]_vars

\* storePrompt threw in every repetition; both calls have returned, the
\* item of one of them ran two repetitions with their afterQueued
\* callbacks, and no dialog was shown
C32_Witness ==
  /\ StoreThrows
  /\ \A c \in Calls : pc[c] = "returned"
  /\ \E c \in Calls : afters[c] = 2 /\ accepted[c] = 2
  /\ \A c \in Calls : afters[c] >= 1
  /\ storedPrompts = <<>>
  /\ dialogs = 0

\* C34: the flag is set only while the call that set it is in progress:
\* when no call is between setting the flag and its end, whether it ended
\* by returning or by an exception of getIdToken, of a beforeQueued
\* callback or of graphToPrompt, the flag is false, so that the next call
\* starts a worker.
C34_FlagClearedWhenStarterEnded ==
  processingQueue => Workers # {}

\* the call returns in this step
Returns(c) == pc[c] # "returned" /\ pc'[c] = "returned"

\* C35: a call that finds the flag set returns false; the call that runs
\* the worker returns only when the pending list is empty, and then it
\* returns true exactly when lastNodeErrors is null at that moment, which
\* is what the last settled submission of the run left there (of whatever
\* item it was): null or the node_errors of the last response or
\* PromptExecutionError.
C35_ReturnValue ==
  [][\A c \in Calls :
       Returns(c) =>
         IF pc[c] = "init"
           THEN processingQueue /\ ret'[c] = "false"
           ELSE /\ pc[c] = "while"
                /\ queueItems = <<>>
                /\ (ret'[c] = "true") <=> (lastNodeErrors = "null")
                /\ (ret'[c] = "false") <=> (lastNodeErrors # "null")
                /\ response.kind \in {"resolved", "PromptExecutionError"} =>
                     lastNodeErrors = OrNull(response.node_errors)
    ]_vars

\* the worker call has returned false although the only submission of its
\* own item was accepted: the item of the other call, appended during the
\* network call, was processed after it and its submission was rejected
\* with node errors
C35_Witness ==
  \E c, d \in Calls :
    /\ pc[c] = "returned" /\ ret[c] = "false"
    /\ promptQueuedCount[c] = 1
    /\ accepted[c] = 1 /\ reps[c] = 1 /\ ~aborted[c]
    /\ inFlight[d] /\ aborted[d]
    /\ lastNodeErrors = "errs"

\* the call, which ran the worker, ends in this step
WorkerEnds(c) == pc[c] \in WorkerPcs /\ pc'[c] \notin WorkerPcs

\* C36: promptQueued is dispatched exactly once per worker run: the step
\* in which the call that ran the worker ends dispatches it, once, with the
\* number and batchCount of that call, with the pending list empty and the
\* flag cleared, also when submissions of the run were rejected; no other
\* step dispatches it, and an absorbed call never does.
C36_PromptQueuedOncePerRun ==
  [][\A c \in Calls :
       /\ WorkerEnds(c) =>
            /\ promptQueuedCount[c] = 0
            /\ promptQueuedCount'[c] = 1
            /\ promptQueued' = [number |-> args[c].number,
                                batchCount |-> args[c].batchCount]
            /\ queueItems' = <<>>
            /\ ~processingQueue'
       /\ ~WorkerEnds(c) => promptQueuedCount'[c] = promptQueuedCount[c]
    ]_vars

\* ------------------------------------------------ the prompt compiler
\* graphToPrompt of @/utils/executionUtil, as the specification describes
\* it (section 4.2 and the data model of section 3): the nodes are walked
\* in declaration order or sorted by id, the nodes in mode "never" and the
\* nodes outside queueNodeIds are skipped, and every input is resolved to
\* the widget value or to the [nodeId, slotIndex] of the upstream node.

MaxGraphNodes == 3

GraphNodeIds == 1..MaxGraphNodes
NodeModes == {"always", "never"}
\* the input slot of node id: not connected and backed by a widget, or
\* connected to output 0 of another node
GraphInputs(id) ==
  {[linked |-> FALSE, origin_id |-> 0, origin_slot |-> 0]} \cup
  {[linked |-> TRUE, origin_id |-> k, origin_slot |-> 0] :
     k \in GraphNodeIds \ {id}}
\* the graphs: every node has a mode and one input slot named "in"
Graphs(ids) ==
  {g \in [ids -> [mode : NodeModes,
                  input : UNION {GraphInputs(k) : k \in ids}]] :
     \A id \in ids : g[id].input \in GraphInputs(id)}
\* the nodes are declared from the highest id to the lowest
DeclarationOrder == [j \in 1..MaxGraphNodes |-> MaxGraphNodes + 1 - j]
\* queueNodeIds: left out, or a set of node ids
QueueNodeIds ==
  {[given |-> FALSE, ids |-> {}]} \cup
  {[given |-> TRUE, ids |-> ids] : ids \in SUBSET GraphNodeIds}
NoOutput == [compiled |-> FALSE, order |-> <<>>, entries |-> <<>>]

\* the node is part of the prompt: not in mode "never", and named by
\* queueNodeIds when there is one
Included(g, options, id) ==
  /\ g[id].mode # "never"
  /\ options.queueNodeIds.given => id \in options.queueNodeIds.ids

\* the order in which the nodes are walked
WalkOrder(options) ==
  IF options.sortNodes THEN [j \in 1..MaxGraphNodes |-> j] ELSE DeclarationOrder

\* the elements of the sequence s that satisfy Test, in order
RECURSIVE SelectIds(_, _, _)
SelectIds(s, g, options) ==
  IF s = <<>> THEN <<>>
  ELSE IF Included(g, options, Head(s))
         THEN <<Head(s)>> \o SelectIds(Tail(s), g, options)
         ELSE SelectIds(Tail(s), g, options)

\* faulty variant of ResolvedInputs: the link is kept whatever it points to
ResolvedInputs_KeepAll(g, options, id) ==
  IF g[id].input.linked
    THEN {[name |-> "in", ref |-> TRUE, nodeId |-> g[id].input.origin_id,
           slotIndex |-> g[id].input.origin_slot, value |-> "none"]}
    ELSE {[name |-> "in", ref |-> FALSE, nodeId |-> 0, slotIndex |-> 0,
           value |-> "widget"]}

\* the inputs of the entry of node id: the widget value of an input that
\* is not connected, the [nodeId, slotIndex] pair of a connected one; an
\* input connected to a node that is not part of the prompt is left out
ResolvedInputs(g, options, id) ==
  IF g[id].input.linked
    THEN IF Included(g, options, g[id].input.origin_id)
           THEN {[name |-> "in", ref |-> TRUE,
                  nodeId |-> g[id].input.origin_id,
                  slotIndex |-> g[id].input.origin_slot, value |-> "none"]}
           ELSE {}
    ELSE {[name |-> "in", ref |-> FALSE, nodeId |-> 0, slotIndex |-> 0,
           value |-> "widget"]}

\* the output of the prompt: one entry for every included node
UtilGraphToPrompt(g, options) ==
  [compiled |-> TRUE,
   order |-> SelectIds(WalkOrder(options), g, options),
   entries |-> [id \in {k \in GraphNodeIds : Included(g, options, k)} |->
                  [class_type |-> "Node",
                   inputs |-> ResolvedInputs(g, options, id)]]]

\* lines 1242-1250: ComfyApp.graphToPrompt passes the graph on, with the
\* setting Comfy.Workflow.SortNodeIdOnSave and the queueNodeIds option.
\* One call is made for a graph: the result depends on the arguments only.
GraphToPrompt(sortNodeIdOnSave, queueNodeIds) ==
  /\ ~promptOutput.compiled
  /\ promptOptions' = [sortNodes |-> sortNodeIdOnSave,
                       queueNodeIds |-> queueNodeIds]
  /\ promptOutput' = UtilGraphToPrompt(promptGraph, promptOptions')
  /\ UNCHANGED <<promptGraph, queueVars, widgetVars, loaderVars, eventVars>>
  /\ UNCHANGED extraVars

CompileInit ==
  /\ environment = CHOOSE e \in Environments : e.store = "stores"
  /\ QueueAtRest
  /\ WidgetAtRest
  /\ LoaderAtRest
  /\ EventsAtRest
  /\ ExtraAtRest
  /\ promptGraph \in Graphs(GraphNodeIds)
  /\ promptOptions = [sortNodes |-> FALSE,
                      queueNodeIds |-> [given |-> FALSE, ids |-> {}]]
  /\ promptOutput = NoOutput

CompileNext ==
  \E sort \in BOOLEAN, ids \in QueueNodeIds : GraphToPrompt(sort, ids)

SpecCompile == CompileInit /\ [][CompileNext]_vars

MaxLen == 3

Letters == {"a", "b", "c"}
Chars == Letters \cup {"{", "|", "}"}
\* the texts of at most n characters
Texts(n) == UNION {[1..k -> Chars] : k \in 0..n}
\* the group with three alternatives
Group3 == <<"{", "a", "|", "b", "|", "c", "}">>
\* the values of a widget: a number, or a text that ends or does not end
\* with the group of three alternatives and a letter
WidgetValues(n) ==
  {NumberValue} \cup
  {[type |-> "string", text |-> t \o g \o u] :
     t \in Texts(n), g \in {<<>>, Group3}, u \in {<<>>, <<"a">>}}
\* the values the user sets later
EditedValues ==
  {[type |-> "string", text |-> t] : t \in {<<"a", "|", "b">>, Group3}}

\* the position of the first ch in s, 0 when there is none
IndexOf(s, ch) ==
  IF \E k \in 1..Len(s) : s[k] = ch
    THEN CHOOSE k \in 1..Len(s) : s[k] = ch /\ \A j \in 1..(k - 1) : s[j] # ch
    ELSE 0

\* the pieces of s between the occurrences of ch
RECURSIVE SplitOn(_, _)
SplitOn(s, ch) ==
  LET k == IndexOf(s, ch)
  IN IF k = 0 THEN <<s>>
     ELSE <<SubSeq(s, 1, k - 1)>> \o SplitOn(SubSeq(s, k + 1, Len(s)), ch)

\* processDynamicPrompt of @/utils/formatUtil, as the specification
\* describes it (sections 4.2 and 8, glossary): every group {x|y|...} is
\* replaced by one of its alternatives, chosen at random; the operator gives
\* the set of the texts it can return. A text without a group is returned
\* as it is.
RECURSIVE ProcessDynamicPrompt(_)
ProcessDynamicPrompt(s) ==
  LET a == IndexOf(s, "{")
      rest == SubSeq(s, a + 1, Len(s))
      b == IndexOf(rest, "}")
  IN IF a = 0 \/ b = 0 THEN {s}
     ELSE LET alts == SplitOn(SubSeq(rest, 1, b - 1), "|")
              tails == ProcessDynamicPrompt(SubSeq(rest, b + 1, Len(rest)))
          IN {SubSeq(s, 1, a - 1) \o alts[j] \o t :
                j \in 1..Len(alts), t \in tails}

\* faulty variant of SerializeValue: the text is returned as it is
SerializeValue_Raw(w) == {w.value}

\* faulty variant of SerializeValue: the return statement is missing
SerializeValue_NoReturn(w) ==
  IF w.value.type # "string" THEN {w.value}
  ELSE {[type |-> "undefined", text |-> <<>>]}

\* part_000 lines 17-30: the serializeValue that nodeCreated installs; the
\* set of the values it can return
SerializeValue(w) ==
  IF w.value.type # "string" THEN {w.value}
  ELSE {[type |-> "string", text |-> t] : t \in ProcessDynamicPrompt(w.value.text)}

\* part_000 lines 9-32: nodeCreated, called once when the node is created,
\* overrides serializeValue of the widgets that have dynamicPrompts set
NodeCreated ==
  /\ ~widget.nodeCreated
  /\ widget' = [widget EXCEPT
                  !.nodeCreated = TRUE,
                  !.serializeValue = IF widget.dynamicPrompts
                                       THEN "dynamic" ELSE @]
  /\ UNCHANGED <<serialized, queueVars, compilerVars, loaderVars, eventVars>>
  /\ UNCHANGED extraVars

\* the user changes the value of the widget
EditValue(v) ==
  /\ widget.value # v
  /\ widget' = [widget EXCEPT !.value = v]
  /\ serialized' = NotSerialized
  /\ UNCHANGED <<queueVars, compilerVars, loaderVars, eventVars>>
  /\ UNCHANGED extraVars

\* faulty variant of Serialize: the value returned is written to the widget
Serialize_Overwrites ==
  /\ widget.nodeCreated
  /\ \E r \in (IF widget.serializeValue = "dynamic"
                 THEN SerializeValue(widget) ELSE {widget.value}) :
       /\ serialized' = [done |-> TRUE, type |-> r.type, text |-> r.text]
       /\ widget' = [widget EXCEPT !.value = r]
  /\ UNCHANGED <<queueVars, compilerVars, loaderVars, eventVars>>
  /\ UNCHANGED extraVars

\* the prompt compiler serializes the widget of the node: with the
\* override of the extension, or else with the value as it is
Serialize ==
  /\ widget.nodeCreated
  /\ \E r \in (IF widget.serializeValue = "dynamic"
                 THEN SerializeValue(widget) ELSE {widget.value}) :
       serialized' = [done |-> TRUE, type |-> r.type, text |-> r.text]
  /\ UNCHANGED <<widget, queueVars, compilerVars, loaderVars, eventVars>>
  /\ UNCHANGED extraVars

DynamicInit ==
  /\ environment = CHOOSE e \in Environments : e.store = "stores"
  /\ QueueAtRest
  /\ CompilerAtRest
  /\ LoaderAtRest
  /\ EventsAtRest
  /\ ExtraAtRest
  /\ widget \in [value : WidgetValues(MaxLen), dynamicPrompts : BOOLEAN,
                  serializeValue : {"default"}, nodeCreated : {FALSE}]
  /\ serialized = NotSerialized

DynamicNext ==
  \/ NodeCreated
  \/ \E v \in EditedValues : EditValue(v)
  \/ Serialize

SpecDynamic == DynamicInit /\ [][DynamicNext]_vars

\* the text has no brace
NoBrace(t) == \A k \in 1..Len(t) : t[k] \notin {"{", "}"}
\* the text is pre {a|b|c} post, with the group at position k and no other
\* brace
GroupAt(t, k) ==
  /\ k + 6 <= Len(t)
  /\ SubSeq(t, k, k + 6) = Group3
  /\ NoBrace(SubSeq(t, 1, k - 1))
  /\ NoBrace(SubSeq(t, k + 7, Len(t)))
\* the text with the group at position k replaced by x
Replaced(t, k, x) == SubSeq(t, 1, k - 1) \o <<x>> \o SubSeq(t, k + 7, Len(t))
\* the widget has the override of the extension and a string value
DynamicWidget ==
  /\ widget.dynamicPrompts
  /\ widget.serializeValue = "dynamic"
  /\ widget.value.type = "string"

\* C14: for a widget flagged dynamicPrompts whose text contains {a|b|c},
\* the texts a serialization can return are exactly the three texts with
\* the group replaced by a, by b and by c, and what a serialization
\* returned is one of them.
C14_OneOfThree ==
  DynamicWidget =>
    \A k \in 1..Len(widget.value.text) :
      GroupAt(widget.value.text, k) =>
        LET results == {[type |-> "string",
                         text |-> Replaced(widget.value.text, k, x)] :
                          x \in Letters}
        IN /\ SerializeValue(widget) = results
           /\ Cardinality(results) = 3
           /\ serialized.done =>
                [type |-> serialized.type, text |-> serialized.text] \in results

\* a text with letters before and after the group was serialized with the
\* second alternative
C14_Witness ==
  /\ DynamicWidget
  /\ \E k \in 2..Len(widget.value.text) :
       /\ GroupAt(widget.value.text, k)
       /\ k + 6 < Len(widget.value.text)
       /\ serialized.done
       /\ serialized.text = Replaced(widget.value.text, k, "b")

\* C15: for a widget flagged dynamicPrompts whose text has no brace, a
\* serialization can return only the current value of the widget, and
\* returned it.
C15_PlainTextUnchanged ==
  (DynamicWidget /\ NoBrace(widget.value.text)) =>
    /\ SerializeValue(widget) = {widget.value}
    /\ serialized.done =>
         [type |-> serialized.type, text |-> serialized.text] = widget.value

\* a text with a bar and without braces was serialized after the user had
\* set it
C15_Witness ==
  /\ DynamicWidget
  /\ widget.value.text = <<"a", "|", "b">>
  /\ serialized.done
  /\ serialized.text = widget.value.text

\* the widget is serialized in this step
Serializes == serialized'.done /\ serialized' # serialized

\* C39: a serialization leaves the widget as it is, its value with the
\* braces included, whatever it returns; and a value that is not a string
\* is returned as it is.
C39_SerializeLeavesWidget ==
  [][Serializes =>
       /\ widget' = widget
       /\ widget.value.type # "string" =>
            serialized' = [done |-> TRUE, type |-> widget.value.type,
                           text |-> widget.value.text]
       /\ (widget.value.type = "string" /\ widget.serializeValue = "dynamic") =>
            /\ serialized'.type = "string"
            /\ serialized'.text \in ProcessDynamicPrompt(widget'.value.text)
    ]_vars

\* a widget whose text has a group was serialized with the override: the
\* value returned has no brace and the widget still holds the text with
\* its braces
C39_Witness ==
  /\ widget.serializeValue = "dynamic"
  /\ widget.value.type = "string"
  /\ \E k \in 1..Len(widget.value.text) : widget.value.text[k] = "{"
  /\ serialized.done
  /\ serialized.text # widget.value.text
  /\ \A k \in 1..Len(serialized.text) : serialized.text[k] \notin {"{", "}"}

\* ------------------------------------------------------- loadApiJson
\* lines 1534-1637. The document is the sequence of its entries in the
\* order of Object.keys; an entry has the key, the class_type and the
\* inputs in their order. The titles of _meta are not modelled.

MaxApiNodes == 2

ApiIds == 1..MaxApiNodes
\* a node id that is the key of no entry
DanglingId == MaxApiNodes + 1
\* LiteGraph.registered_node_types: the input slots, the widgets and the
\* number of outputs of the node that createNode makes for the type
NodeDefs ==
  [LoadImage |-> [inputs |-> <<>>, widgets |-> <<"image">>, outputs |-> 1],
   SaveImage |-> [inputs |-> <<"images">>, widgets |-> <<"filename_prefix">>,
                  outputs |-> 1],
   ControlNetLoader |-> [inputs |-> <<>>, widgets |-> <<"control_net_name">>,
                         outputs |-> 1],
   ConditioningAverage |-> [inputs |-> <<"conditioning_to",
                                         "conditioning_from">>,
                            widgets |-> <<"conditioning_to_strength">>,
                            outputs |-> 1],
   SVD_img2vid_Conditioning |-> [inputs |-> <<"clip_vision", "init_image",
                                              "vae">>,
                                 widgets |-> <<"width">>, outputs |-> 3]]
RegisteredNodeTypes == DOMAIN NodeDefs
\* an input with a literal value, and an input with the value
\* [fromId, fromSlot]
Literal(name) == [name |-> name, array |-> FALSE, fromId |-> 0, fromSlot |-> 0]
Reference(name, k) == [name |-> name, array |-> TRUE, fromId |-> k, fromSlot |-> 0]
\* the entries with key id: a type that is not registered, a LoadImage, or
\* a SaveImage whose inputs name its input slot, its widget or neither,
\* with references to other keys and to DanglingId
ApiEntries(id) ==
  LET sources == (1..DanglingId) \ {id}
      saveInputs ==
        {<<>>, <<Literal("images")>>, <<Literal("filename_prefix")>>} \cup
        UNION {{<<Reference("images", k)>>,
                <<Reference("filename_prefix", k)>>,
                <<Reference("bogus", k)>>,
                <<Reference("images", k), Literal("filename_prefix")>>,
                <<Reference("filename_prefix", k), Reference("images", k)>>} :
               k \in sources}
  IN {[id |-> id, class_type |-> "FooBar", inputs |-> <<>>]} \cup
     {[id |-> id, class_type |-> "LoadImage", inputs |-> inp] :
        inp \in {<<>>, <<Literal("image")>>}} \cup
     {[id |-> id, class_type |-> "SaveImage", inputs |-> inp] :
        inp \in saveInputs}
\* the orders of the keys: ascending and descending
KeyOrders(n) == {[j \in 1..n |-> j], [j \in 1..n |-> n + 1 - j]}
ApiDocuments(max) ==
  UNION {{[j \in 1..n |-> f[order[j]]] :
            order \in KeyOrders(n),
            f \in {g \in [1..n -> UNION {ApiEntries(k) : k \in 1..n}] :
                     \A k \in 1..n : g[k].id = k}} :
         n \in 1..max}

\* line 1546: app.graph.clear()
ClearedGraph == [nodes |-> <<>>, links |-> <<>>, last_link_id |-> 0]

\* lines 1558, 1563: app.graph.getNodeById, the position of the node in
\* graph.nodes, 0 when there is none (undefined)
GetNodeById(g, id) ==
  IF \E k \in 1..Len(g.nodes) : g.nodes[k].id = id
    THEN CHOOSE k \in 1..Len(g.nodes) : g.nodes[k].id = id
    ELSE 0

\* line 1538: LiteGraph.registered_node_types[n.class_type]
IsRegistered(type) == type \in RegisteredNodeTypes

\* lines 1549-1552: LiteGraph.createNode(class_type) with its id set; the
\* caller tests IsRegistered first (createNode returns null otherwise)
CreateNode(id, type) ==
  [id |-> id, type |-> <<type>>,
   inputs |-> [j \in 1..Len(NodeDefs[type].inputs) |->
                 [name |-> NodeDefs[type].inputs[j], link |-> 0]],
   widgets |-> [j \in 1..Len(NodeDefs[type].widgets) |->
                  [name |-> NodeDefs[type].widgets[j], value |-> "default"]],
   outputs |-> NodeDefs[type].outputs]

\* lines 1547-1554: the first loop, one node for every key
RECURSIVE CreateNodes(_, _)
CreateNodes(g, doc) ==
  IF doc = <<>> THEN g
  ELSE IF ~IsRegistered(Head(doc).class_type)
         THEN CreateNodes(g, Tail(doc))
         ELSE CreateNodes(
                [g EXCEPT !.nodes =
                   Append(@, CreateNode(Head(doc).id, Head(doc).class_type))],
                Tail(doc))

\* faulty variant of FindInputSlot: the first input slot, whatever its name
FindInputSlot_First(node, name) == IF node.inputs = <<>> THEN -1 ELSE 0

\* line 1565: node.inputs.findIndex((inp) => inp.name === input), counted
\* from 0, -1 when there is none
FindInputSlot(node, name) ==
  IF \E k \in 1..Len(node.inputs) : node.inputs[k].name = name
    THEN (CHOOSE k \in 1..Len(node.inputs) :
            /\ node.inputs[k].name = name
            /\ \A j \in 1..(k - 1) : node.inputs[j].name # name) - 1
    ELSE -1

\* lines 1570, 1584: node.widgets.find((w) => w.name === input), the
\* position of the widget, 0 when there is none
FindWidget(node, name) ==
  IF \E k \in 1..Len(node.widgets) : node.widgets[k].name = name
    THEN CHOOSE k \in 1..Len(node.widgets) : node.widgets[k].name = name
    ELSE 0

\* the value that stands for a toSlot of null or undefined (findIndex on a
\* node without an inputs array)
NullSlot == -2

\* line 1578: toSlot != null || toSlot !== -1
ShouldConnect(toSlot) == toSlot # NullSlot \/ toSlot # -1

\* line 1580: fromNode.connect(fromSlot, node, toSlot) of LiteGraph, for the
\* nodes at positions f and n: nothing happens when the output or the
\* input slot does not exist; a link that the input already has is removed;
\* the new link gets the next link id
Connect(g, f, fromSlot, n, toSlot) ==
  IF \/ fromSlot < 0 \/ fromSlot >= g.nodes[f].outputs
     \/ toSlot < 0 \/ toSlot >= Len(g.nodes[n].inputs)
    THEN g
    ELSE LET old == g.nodes[n].inputs[toSlot + 1].link
             id == g.last_link_id + 1
             kept == SelectSeq(g.links, LAMBDA l : l.id # old)
         IN [nodes |-> [g.nodes EXCEPT ![n].inputs[toSlot + 1].link = id],
             links |-> Append(kept,
                         [id |-> id,
                          origin_id |-> g.nodes[f].id, origin_slot |-> fromSlot,
                          target_id |-> g.nodes[n].id, target_slot |-> toSlot]),
             last_link_id |-> id]

\* lines 1560-1589: one input of the entry with key id. st is the graph
\* and whether an exception has been thrown. Reading a property of a node
\* that getNodeById did not find throws a TypeError.
ApplyInput(st, id, inp) ==
  LET g == st.graph
      n == GetNodeById(g, id)
  IN IF st.threw THEN st
     ELSE IF n = 0 THEN [graph |-> g, threw |-> TRUE]
     ELSE IF inp.array
       THEN LET found == FindInputSlot(g.nodes[n], inp.name)
                converted == found = -1 /\ FindWidget(g.nodes[n], inp.name) # 0
                g1 == IF converted
                        THEN [g EXCEPT !.nodes[n].inputs =
                                Append(@, [name |-> inp.name, link |-> 0])]
                        ELSE g
                toSlot == IF converted THEN Len(g1.nodes[n].inputs) - 1
                          ELSE found
                f == GetNodeById(g1, inp.fromId)
            IN IF ~ShouldConnect(toSlot) THEN [graph |-> g1, threw |-> FALSE]
               ELSE IF f = 0 THEN [graph |-> g1, threw |-> TRUE]
               ELSE [graph |-> Connect(g1, f, inp.fromSlot, n, toSlot),
                     threw |-> FALSE]
       ELSE LET w == FindWidget(g.nodes[n], inp.name)
            IN IF w = 0 THEN st
               ELSE [graph |-> [g EXCEPT !.nodes[n].widgets[w].value = "value"],
                     threw |-> FALSE]

\* line 1559: for (const input in data.inputs ?? {})
RECURSIVE ApplyInputs(_, _, _)
ApplyInputs(st, id, inputs) ==
  IF inputs = <<>> THEN st
  ELSE ApplyInputs(ApplyInput(st, id, Head(inputs)), id, Tail(inputs))

\* lines 1556-1591 and again 1594-1629: for (const id of ids)
RECURSIVE ResolveInputs(_, _)
ResolveInputs(st, doc) ==
  IF doc = <<>> THEN st
  ELSE ResolveInputs(ApplyInputs(st, Head(doc).id, Head(doc).inputs), Tail(doc))

\* lines 1537-1539: the entries whose class_type is not registered
MissingNodeTypes(doc) ==
  SelectSeq(doc, LAMBDA e : ~IsRegistered(e.class_type))

\* faulty variant of LoadApiJson: the graph is cleared before the types are
\* looked up
LoadApiJson_ClearsFirst ==
  /\ loadStatus = "idle"
  /\ LET missing == MissingNodeTypes(apiData)
         created == CreateNodes(ClearedGraph, apiData)
         first == ResolveInputs([graph |-> created, threw |-> FALSE], apiData)
         second == ResolveInputs(first, apiData)
     IN IF Len(missing) > 0
          THEN /\ missingNodesReport' =
                    [shown |-> TRUE,
                     types |-> [j \in 1..Len(missing) |-> missing[j].class_type]]
               /\ loadStatus' = "reported"
               /\ graph' = ClearedGraph
          ELSE /\ missingNodesReport' = missingNodesReport
               /\ graph' = second.graph
               /\ loadStatus' = IF second.threw THEN "threw" ELSE "loaded"
  /\ UNCHANGED <<apiData, graphData, missingNodeTypes, appStateVars>>
  /\ UNCHANGED <<queueVars, compilerVars, widgetVars, eventVars>>
  /\ UNCHANGED extraVars

\* lines 1534-1637: loadApiJson(apiData)
LoadApiJson ==
  /\ loadStatus = "idle"
  /\ LET missing == MissingNodeTypes(apiData)
         created == CreateNodes(ClearedGraph, apiData)
         first == ResolveInputs([graph |-> created, threw |-> FALSE], apiData)
         second == ResolveInputs(first, apiData)
     IN IF Len(missing) > 0
          THEN /\ missingNodesReport' =
                    [shown |-> TRUE,
                     types |-> [j \in 1..Len(missing) |-> missing[j].class_type]]
               /\ loadStatus' = "reported"
               /\ graph' = graph
          ELSE /\ missingNodesReport' = missingNodesReport
               /\ graph' = second.graph
               /\ loadStatus' = IF second.threw THEN "threw" ELSE "loaded"
  /\ UNCHANGED <<apiData, graphData, missingNodeTypes, appStateVars>>
  /\ UNCHANGED <<queueVars, compilerVars, widgetVars, eventVars>>
  /\ UNCHANGED extraVars

ApiInit ==
  /\ environment = CHOOSE e \in Environments : e.store = "stores"
  /\ QueueAtRest
  /\ CompilerAtRest
  /\ WidgetAtRest
  /\ apiData \in ApiDocuments(MaxApiNodes)
  /\ graph = OldGraph
  /\ loadStatus = "idle"
  /\ missingNodesReport = NoReport
  /\ GraphLoaderAtRest
  /\ EventsAtRest
  /\ ExtraAtRest

ApiNext == LoadApiJson

SpecApi == ApiInit /\ [][ApiNext]_vars

\* the keys of the document
ApiKeys(doc) == {doc[j].id : j \in 1..Len(doc)}
\* the position of the entry with key id
EntryOf(doc, id) == (CHOOSE j \in 1..Len(doc) : doc[j].id = id)
\* the number of array-valued inputs of the document
RECURSIVE CountReferences(_)
CountReferences(doc) ==
  IF doc = <<>> THEN 0
  ELSE Cardinality({k \in 1..Len(Head(doc).inputs) : Head(doc).inputs[k].array})
       + CountReferences(Tail(doc))
\* every class_type is registered
AllRegistered(doc) == \A j \in 1..Len(doc) : IsRegistered(doc[j].class_type)
\* the array-valued input references a key of the document
ReferencesKey(doc, inp) == inp.fromId \in ApiKeys(doc)
\* the node of the type has an input slot or a widget of that name
NamesInput(type, name) ==
  \/ \E k \in 1..Len(NodeDefs[type].inputs) : NodeDefs[type].inputs[k] = name
  \/ \E k \in 1..Len(NodeDefs[type].widgets) : NodeDefs[type].widgets[k] = name
\* every class_type is registered and every array-valued input references
\* an output of a node of the document and names an input of its own node
WellFormed(doc) ==
  /\ AllRegistered(doc)
  /\ \A j \in 1..Len(doc) : \A k \in 1..Len(doc[j].inputs) :
       doc[j].inputs[k].array =>
         /\ ReferencesKey(doc, doc[j].inputs[k])
         /\ NamesInput(doc[j].class_type, doc[j].inputs[k].name)
         /\ doc[j].inputs[k].fromSlot <
              NodeDefs[doc[EntryOf(doc, doc[j].inputs[k].fromId)].class_type].outputs

C17_UnknownTypesLoad ==
  (loadStatus # "idle" /\ ~AllRegistered(apiData)) =>
    /\ missingNodesReport.shown
    /\ loadStatus = "loaded"
    /\ \A j \in 1..Len(apiData) :
         IsRegistered(apiData[j].class_type) =>
           GetNodeById(graph, apiData[j].id) # 0

\* C38: the load of a document in which some class_type is not registered
\* leaves app.graph as it was: the nodes with their widget values, the
\* links and last_link_id are those of the graph before the load.
C38_UnknownTypeLeavesGraph ==
  [][(loadStatus = "idle" /\ loadStatus' # "idle" /\ ~AllRegistered(apiData)) =>
       /\ loadStatus' = "reported"
       /\ graph' = graph
       /\ graph'.nodes = OldGraph.nodes
       /\ graph'.links = OldGraph.links
    ]_vars

\* a document of two entries, the first with a registered type and the
\* second with an unknown one, was reported and the graph still has the one
\* node it had, with its widget value
C38_Witness ==
  /\ loadStatus = "reported"
  /\ Len(apiData) = 2
  /\ IsRegistered(apiData[1].class_type)
  /\ ~IsRegistered(apiData[2].class_type)
  /\ graph = OldGraph
  /\ graph.nodes[1].widgets[1].value = "default"

\* the document has an array-valued input that references no key of the
\* document or names neither an input slot nor a widget of its node
HasDanglingLink(doc) ==
  \E j \in 1..Len(doc) : \E k \in 1..Len(doc[j].inputs) :
    /\ doc[j].inputs[k].array
    /\ \/ ~ReferencesKey(doc, doc[j].inputs[k])
       \/ (IsRegistered(doc[j].class_type)
             /\ ~NamesInput(doc[j].class_type, doc[j].inputs[k].name))

\* C20: the load of a document with a dangling link does not end with an
\* uncaught exception: it ends with a report or with the graph loaded.
C20_DanglingLinkNoCrash ==
  (loadStatus # "idle" /\ HasDanglingLink(apiData)) => loadStatus # "threw"

\* ------------------------------------------------------------------------
\* loadGraphData (SpecLoad): the load of a graph-format document
\* ------------------------------------------------------------------------

\* the longest type name written character by character
MaxName == 2

\* the most nodes of a graph-format document
MaxDocNodes == 2

\* the characters of those names: a letter and one of the characters that
\* sanitizeNodeName removes
NameChars == {"F", "&"}

\* a name with every character that sanitizeNodeName removes
EntityName == <<"&", "<", ">", "F", "\"", "'", "backtick", "=">>

CharNames == UNION {[1..n -> NameChars] : n \in 1..MaxName}

\* the type names that loadGraphData renames
LegacyNames ==
  {<<"T2IAdapterLoader">>, <<"ConditioningAverage ">>,
   <<"SDV_img2vid_Conditioning">>}

\* the type names of the nodes of a document
TypeNames == CharNames \cup LegacyNames \cup {<<"LoadImage">>, EntityName}

\* the documents of n nodes; graph.configure accepts the document or throws
\* on it
GraphDocuments(n) ==
  {[nodes |-> [j \in 1..n |-> [id |-> j, type |-> types[j]]],
    malformed |-> m] :
     types \in [1..n -> TypeNames], m \in BOOLEAN}

\* the nodes that had DOM widgets before the load
PriorNodes == {100}

\* the output and the preview that node 100 had before the load
PriorOutputs == ("100" :> [images |-> <<"a">>])
PriorPreviews == ("100" :> <<1>>)

\* the keys of entityMap; "backtick" stands for the grave accent, which a
\* string of this language cannot hold
EntityMap == {"&", "<", ">", "\"", "'", "backtick", "="}

SanitizeNodeName_First(string) ==
  LET hits == {k \in 1..Len(string) : string[k] \in EntityMap}
  IN IF hits = {}
       THEN string
       ELSE LET f == CHOOSE k \in hits : \A h \in hits : k <= h
            IN SubSeq(string, 1, f - 1) \o SubSeq(string, f + 1, Len(string))

\* sanitizeNodeName: every character that is a key of entityMap is replaced
\* by the empty string
SanitizeNodeName(string) ==
  SelectSeq(string, LAMBDA ch : ch \notin EntityMap)

\* n.type in LiteGraph.registered_node_types
InRegisteredNodeTypes(type) == \E t \in RegisteredNodeTypes : type = <<t>>

PatchType_None(type) == type

\* lines 1096-1099: the renames of the node types that were renamed
PatchType(type) ==
  IF type = <<"T2IAdapterLoader">> THEN <<"ControlNetLoader">>
  ELSE IF type = <<"ConditioningAverage ">> THEN <<"ConditioningAverage">>
  ELSE IF type = <<"SDV_img2vid_Conditioning">>
    THEN <<"SVD_img2vid_Conditioning">>
  ELSE type

\* lines 1094-1105, the nodes of the document after the loop: a type that
\* is not registered after the renames is replaced by its sanitized name
PatchedNodes(nodes) ==
  [j \in 1..Len(nodes) |->
     LET type == PatchType(nodes[j].type)
     IN [nodes[j] EXCEPT !.type = IF InRegisteredNodeTypes(type)
                                    THEN type
                                    ELSE SanitizeNodeName(type)]]

\* lines 1094-1105, missingNodeTypes after the loop
PushedTypes(nodes) ==
  LET types == [j \in 1..Len(nodes) |-> PatchType(nodes[j].type)]
  IN SelectSeq(types, LAMBDA type : ~InRegisteredNodeTypes(type))

\* graph.configure on a document it accepts: the graph has the nodes of the
\* document and no link; a node of a type that is not registered is kept
\* under the type name of the document
Configure(nodes) ==
  [nodes |-> [j \in 1..Len(nodes) |->
                IF InRegisteredNodeTypes(nodes[j].type)
                  THEN CreateNode(nodes[j].id, nodes[j].type[1])
                  ELSE [id |-> nodes[j].id, type |-> nodes[j].type,
                        inputs |-> <<>>, widgets |-> <<>>, outputs |-> 0]],
   links |-> <<>>,
   last_link_id |-> 0]

StoredUrls_None(table) == {}

\* the urls stored in a preview table, which revokeAllPreviews revokes
StoredUrls(table) ==
  UNION {{table[id][k] : k \in 1..Len(table[id])} : id \in DOMAIN table}

\* f with the value v under id
Put(f, id, v) == [k \in DOMAIN f \cup {id} |-> IF k = id THEN v ELSE f[k]]

\* f without its entry for id
Delete(f, id) == [k \in DOMAIN f \ {id} |-> f[k]]

\* lines 1035-1090: loadGraphData up to the await of the beforeConfigureGraph
\* hooks. clean() runs first unless clean is false. Workflow validation is
\* off and the document has no subgraph.
LoadGraphData(clean) ==
  /\ loadStatus = "idle"
  /\ IF clean
       THEN /\ nodeOutputs' = <<>>
            /\ previews' = <<>>
            /\ liveUrls' = liveUrls \ StoredUrls(previews)
            /\ lastNodeErrors' = "null"
            /\ lastExecutionError' = "null"
            /\ domWidgets' = {}
            /\ eventCount' = eventCount + 1
            /\ lastEvent' = [NoEvent EXCEPT !.type = "clean"]
       ELSE UNCHANGED <<nodeOutputs, previews, liveUrls, lastNodeErrors,
                        lastExecutionError, domWidgets, eventCount,
                        lastEvent>>
  /\ missingNodeTypes' = <<>>
  /\ loadStatus' = "beforeConfigureGraph"
  /\ UNCHANGED <<graph, graphData, missingNodesReport, apiData, dialogs>>
  /\ UNCHANGED <<nextUrl, onExecutedCalls, shownDialogs, canvasDraws>>
  /\ UNCHANGED <<queueOnlyVars, compilerVars, widgetVars>>
  /\ UNCHANGED extraVars

\* lines 1092-1232: from the resumption after the beforeConfigureGraph hooks
\* to the await of the afterConfigureGraph hooks. When graph.configure
\* throws, the graph is as it was or has been cleared, depending on how far
\* configure went; the catch block shows the error dialog and returns.
ConfigureGraph(showMissingNodesDialog) ==
  /\ loadStatus = "beforeConfigureGraph"
  /\ missingNodeTypes' = missingNodeTypes \o PushedTypes(graphData.nodes)
  /\ IF graphData.malformed
       THEN /\ \E g \in {graph, ClearedGraph} : graph' = g
            /\ dialogs' = dialogs + 1
            /\ loadStatus' = "failed"
            /\ UNCHANGED missingNodesReport
       ELSE /\ graph' = Configure(PatchedNodes(graphData.nodes))
            /\ missingNodesReport' =
                 IF Len(missingNodeTypes') > 0 /\ showMissingNodesDialog
                   THEN [shown |-> TRUE, types |-> missingNodeTypes']
                   ELSE missingNodesReport
            /\ loadStatus' = "afterConfigureGraph"
            /\ UNCHANGED dialogs
  /\ UNCHANGED <<graphData, apiData, appStateVars, lastNodeErrors>>
  /\ UNCHANGED <<queueOnlyVars, compilerVars, widgetVars, eventVars>>
  /\ UNCHANGED extraVars

\* lines 1233-1240: the afterConfigureGraph hooks and afterLoadNewGraph have
\* run
AfterLoadNewGraph ==
  /\ loadStatus = "afterConfigureGraph"
  /\ loadStatus' = "loaded"
  /\ UNCHANGED <<graph, graphData, missingNodeTypes, missingNodesReport,
                 apiData, appStateVars, storeVars>>
  /\ UNCHANGED <<queueOnlyVars, compilerVars, widgetVars, eventVars>>
  /\ UNCHANGED extraVars

\* a document is about to be loaded over a graph that has run: its node has
\* outputs, a preview and a DOM widget, and the last run left errors
LoadInit ==
  /\ environment = CHOOSE e \in Environments : e.store = "stores"
  /\ QueueOnlyAtRest
  /\ CompilerAtRest
  /\ WidgetAtRest
  /\ apiData = <<>>
  /\ graph = OldGraph
  /\ loadStatus = "idle"
  /\ missingNodesReport = NoReport
  /\ \E n \in 1..MaxDocNodes : graphData \in GraphDocuments(n)
  /\ missingNodeTypes = <<>>
  /\ nodeOutputs = PriorOutputs
  /\ previews = PriorPreviews
  /\ liveUrls = StoredUrls(PriorPreviews)
  /\ nextUrl = 2
  /\ eventCount = 0
  /\ lastEvent = NoEvent
  /\ onExecutedCalls = <<>>
  /\ shownDialogs = <<>>
  /\ canvasDraws = 0
  /\ lastNodeErrors = "errs"
  /\ lastExecutionError = "error"
  /\ domWidgets = PriorNodes
  /\ dialogs = 0
  /\ ExtraAtRest

LoadNext ==
  \/ \E clean \in BOOLEAN : LoadGraphData(clean)
  \/ \E showMissingNodesDialog \in BOOLEAN :
       ConfigureGraph(showMissingNodesDialog)
  \/ AfterLoadNewGraph

SpecLoad == LoadInit /\ [][LoadNext]_vars

\* ------------------------------------------------------------------------
\* Properties of loadGraphData
\* ------------------------------------------------------------------------

\* graph.configure has accepted the document
Configured == loadStatus \in {"afterConfigureGraph", "loaded"}

\* to is from without the characters & < > " ' = and the grave accent: the
\* characters of from that are none of these, in their order
Sanitized(from, to) ==
  LET safe == {k \in 1..Len(from) :
                 from[k] \notin {"&", "<", ">", "\"", "'", "backtick",
                                  "="}}
  IN /\ Len(to) = Cardinality(safe)
     /\ \A k \in safe : to[Cardinality({h \in safe : h <= k})] = from[k]

\* the name that a type name has after the renames of the legacy types
LegacyRenamed(type) ==
  LET renames == {<<"T2IAdapterLoader", "ControlNetLoader">>,
                  <<"ConditioningAverage ", "ConditioningAverage">>,
                  <<"SDV_img2vid_Conditioning", "SVD_img2vid_Conditioning">>}
  IN IF \E r \in renames : type = <<r[1]>>
       THEN <<(CHOOSE r \in renames : type = <<r[1]>>)[2]>>
       ELSE type

\* the node of the graph at position j is the node of the document under
\* the type name expected: unchanged when it is registered, else sanitized
\* and listed among the missing types
NodeLoadedAs(j, expected) ==
  /\ graph.nodes[j].id = graphData.nodes[j].id
  /\ IF InRegisteredNodeTypes(expected)
       THEN graph.nodes[j].type = expected
       ELSE /\ Sanitized(expected, graph.nodes[j].type)
            /\ \E k \in 1..Len(missingNodeTypes) :
                 missingNodeTypes[k] = expected

\* C18 as stated: the load of a document that graph.configure accepts
\* does not fail, and once the graph is configured every node of the document
\* is in it, under its own type name when that name is registered and else
\* under its sanitized type name with the name of the document listed in
\* the missing types.
C18_UnregisteredTypeSanitized ==
  /\ ~graphData.malformed => loadStatus # "failed"
  /\ Configured =>
       /\ Len(graph.nodes) = Len(graphData.nodes)
       /\ \A j \in 1..Len(graphData.nodes) :
            NodeLoadedAs(j, graphData.nodes[j].type)

\* C18 amended: the same with the type name that the node has after the
\* renames of the legacy types: that name is the one looked up in the
\* registry, sanitized and listed; and the missing types hold nothing else.
C18_RenamedTypeSanitized ==
  /\ ~graphData.malformed => loadStatus # "failed"
  /\ Configured =>
       /\ Len(graph.nodes) = Len(graphData.nodes)
       /\ \A j \in 1..Len(graphData.nodes) :
            NodeLoadedAs(j, LegacyRenamed(graphData.nodes[j].type))
       /\ \A k \in 1..Len(missingNodeTypes) :
            /\ ~InRegisteredNodeTypes(missingNodeTypes[k])
            /\ \E j \in 1..Len(graphData.nodes) :
                 missingNodeTypes[k] = LegacyRenamed(graphData.nodes[j].type)

\* a document was loaded with a node of a type that is not registered and
\* whose name has every removed character, next to a node of a
\* registered type: the first is in the graph under its sanitized name and
\* was reported, the second kept its type
C18_Witness ==
  /\ loadStatus = "loaded"
  /\ Len(graphData.nodes) = 2
  /\ graphData.nodes[1].type = EntityName
  /\ graphData.nodes[2].type = <<"LoadImage">>
  /\ graph.nodes[1].type = <<"F">>
  /\ graph.nodes[2].type = <<"LoadImage">>
  /\ missingNodesReport = [shown |-> TRUE, types |-> <<EntityName>>]

\* the type names of a sequence of type names
Names(types) == {types[k] : k \in 1..Len(types)}

\* C31: once loadGraphData has configured the graph, no node has one of the
\* three old type names: a node of the document with an old name is in the
\* graph under the new name; and the old names are never among the missing
\* node types, listed or reported.
C31_LegacyTypesRewritten ==
  /\ Names(missingNodeTypes) \cap LegacyNames = {}
  /\ missingNodesReport.shown =>
       Names(missingNodesReport.types) \cap LegacyNames = {}
  /\ Configured =>
       \A j \in 1..Len(graphData.nodes) :
         /\ graph.nodes[j].type \notin LegacyNames
         /\ graphData.nodes[j].type = <<"T2IAdapterLoader">> =>
              graph.nodes[j].type = <<"ControlNetLoader">>
         /\ graphData.nodes[j].type = <<"ConditioningAverage ">> =>
              graph.nodes[j].type = <<"ConditioningAverage">>
         /\ graphData.nodes[j].type = <<"SDV_img2vid_Conditioning">> =>
              graph.nodes[j].type = <<"SVD_img2vid_Conditioning">>

\* a document with an adapter loader and a mistyped conditioning node was
\* loaded: the graph has them under the new names and nothing is missing
C31_Witness ==
  /\ loadStatus = "loaded"
  /\ Len(graphData.nodes) = 2
  /\ graphData.nodes[1].type = <<"T2IAdapterLoader">>
  /\ graphData.nodes[2].type = <<"SDV_img2vid_Conditioning">>
  /\ graph.nodes[1].type = <<"ControlNetLoader">>
  /\ graph.nodes[2].type = <<"SVD_img2vid_Conditioning">>
  /\ missingNodeTypes = <<>>

\* C19: after a load that failed because graph.configure threw, the error
\* dialog has been shown once and the graph, the node outputs, the previews
\* and the recorded errors are what they were before the load.
C19_FailedLoadLeavesState ==
  loadStatus = "failed" =>
    /\ dialogs = 1
    /\ graph = OldGraph
    /\ nodeOutputs = PriorOutputs
    /\ previews = PriorPreviews
    /\ lastNodeErrors = "errs"
    /\ lastExecutionError = "error"

\* ------------------------------------------------------------------------
\* The handlers of the api events (SpecEvents), lines 666-732, and clean()
\* ------------------------------------------------------------------------

\* the most events handled in one run
MaxEvents == 3

\* the longest exception_message, in words
MaxMessage == 2

\* the ids that events name: node 1 and node 2 are in the graph, node 3 is
\* not
EventNodeIds == {1, 2, 3}

\* the graph while the events arrive
EventGraph ==
  [nodes |-> <<CreateNode(1, "SaveImage"), CreateNode(2, "LoadImage")>>,
   links |-> <<>>,
   last_link_id |-> 0]

\* the node types whose nodes define onExecuted
OnExecutedTypes == {<<"SaveImage">>}

\* the outputs that events carry: lists under the keys of the output
OutputValues ==
  {[images |-> <<"a">>], [images |-> <<"b">>, text |-> <<"t">>]}

\* the texts that the execution_error handler looks for
LoginRequired == "Unauthorized: Please login first to use this node."
PaymentRequired ==
  "Payment Required: Please add credits to your account to use this node."

\* the words of a message: one of the two texts, or something else
MessageWords == {LoginRequired, PaymentRequired, "x"}

\* the messages of up to n words
Messages(n) == UNION {[1..k -> MessageWords] : k \in 0..n}

\* the executed events; display_node 0 stands for a value that is falsy
\* (absent, null, 0)
ExecutedEvents ==
  {[NoEvent EXCEPT !.type = "executed", !.display_node = d, !.node = n,
                   !.output = o, !.merge = m] :
     d \in {0, 1}, n \in EventNodeIds, o \in OutputValues,
     m \in {"undefined", "false", "true"}}

\* the b_preview_with_metadata events
PreviewEvents ==
  {[NoEvent EXCEPT !.type = "b_preview_with_metadata",
                   !.displayNodeId = ToString(n)] : n \in EventNodeIds}

\* the execution_error events of messages of up to n words, and the one
\* without exception_message
ExecutionErrorEvents(n) ==
  {[NoEvent EXCEPT !.type = "execution_error", !.hasMessage = TRUE,
                   !.exception_message = m] : m \in Messages(n)} \cup
  {[NoEvent EXCEPT !.type = "execution_error"]}

ExecutionId_NodeFirst(detail) ==
  ToString(IF detail.node # 0 THEN detail.node ELSE detail.display_node)

\* line 681: String(detail.display_node || detail.node)
ExecutionId(detail) ==
  ToString(IF detail.display_node # 0 THEN detail.display_node
                                      ELSE detail.node)

MergeOutputs_NewFirst(old, new) ==
  [k \in DOMAIN old \cup DOMAIN new |->
     IF k \in DOMAIN new
       THEN IF k \in DOMAIN old THEN new[k] \o old[k] ELSE new[k]
       ELSE old[k]]

\* the output that has the entries of old followed by those of new
MergeOutputs(old, new) ==
  [k \in DOMAIN old \cup DOMAIN new |->
     IF k \in DOMAIN new
       THEN IF k \in DOMAIN old THEN old[k] \o new[k] ELSE new[k]
       ELSE old[k]]

SetNodeOutputsByExecutionId_Replace(outputs, id, output, merge) ==
  Put(outputs, id, output)

\* nodeOutputStore.setNodeOutputsByExecutionId: with merge the output is
\* added to the one cached under the id, otherwise it replaces it
SetNodeOutputsByExecutionId(outputs, id, output, merge) ==
  IF merge = "true" /\ id \in DOMAIN outputs
    THEN Put(outputs, id, MergeOutputs(outputs[id], output))
    ELSE Put(outputs, id, output)

\* getNodeByExecutionId: the position in graph.nodes of the node with that
\* execution id, 0 when there is none
GetNodeByExecutionId(g, executionId) ==
  IF \E k \in 1..Len(g.nodes) : ToString(g.nodes[k].id) = executionId
    THEN CHOOSE k \in 1..Len(g.nodes) : ToString(g.nodes[k].id) = executionId
    ELSE 0

\* the urls stored for an id
UrlsOf(table, id) ==
  IF id \in DOMAIN table
    THEN {table[id][k] : k \in 1..Len(table[id])}
    ELSE {}

RevokedByExecutionId_None(table, id) == {}

\* revokePreviewsByExecutionId: the urls that it revokes
RevokedByExecutionId(table, id) == UrlsOf(table, id)

\* lines 679-691: the executed handler
Executed(detail) ==
  /\ eventCount < MaxEvents
  /\ LET executionId == ExecutionId(detail)
         node == GetNodeByExecutionId(graph, executionId)
     IN /\ nodeOutputs' =
             SetNodeOutputsByExecutionId(nodeOutputs, executionId,
                                         detail.output, detail.merge)
        /\ onExecutedCalls' =
             IF node # 0 /\ graph.nodes[node].type \in OnExecutedTypes
               THEN <<[id |-> graph.nodes[node].id, output |-> detail.output]>>
               ELSE <<>>
  /\ eventCount' = eventCount + 1
  /\ lastEvent' = detail
  /\ shownDialogs' = <<>>
  /\ canvasDraws' = 0
  /\ UNCHANGED <<nextUrl, previews, liveUrls, lastExecutionError, domWidgets>>
  /\ UNCHANGED <<apiData, graph, loadStatus, missingNodesReport, graphData,
                 missingNodeTypes>>
  /\ UNCHANGED <<queueVars, compilerVars, widgetVars>>
  /\ UNCHANGED extraVars

\* lines 693-695: the execution_start handler; the onExecutionStart
\* callbacks of the nodes change nothing here
ExecutionStart ==
  /\ eventCount < MaxEvents
  /\ eventCount' = eventCount + 1
  /\ lastEvent' = [NoEvent EXCEPT !.type = "execution_start"]
  /\ onExecutedCalls' = <<>>
  /\ shownDialogs' = <<>>
  /\ canvasDraws' = 0
  /\ UNCHANGED <<nextUrl, loaderVars>>
  /\ UNCHANGED <<queueVars, compilerVars, widgetVars>>
  /\ UNCHANGED extraVars

\* exception_message?.includes(text)
Includes(detail, text) ==
  /\ detail.hasMessage
  /\ \E k \in 1..Len(detail.exception_message) :
       detail.exception_message[k] = text

ErrorDialog_PaymentFirst(detail) ==
  IF Includes(detail, PaymentRequired) THEN "topUpCredits"
  ELSE IF Includes(detail, LoginRequired) THEN "apiNodesSignIn"
  ELSE "executionError"

\* lines 699-715: the dialog that the execution_error handler opens
ErrorDialog(detail) ==
  IF Includes(detail, LoginRequired) THEN "apiNodesSignIn"
  ELSE IF Includes(detail, PaymentRequired) THEN "topUpCredits"
  ELSE "executionError"

\* lines 697-717: the execution_error handler
ExecutionError(detail) ==
  /\ eventCount < MaxEvents
  /\ shownDialogs' = <<ErrorDialog(detail)>>
  /\ canvasDraws' = 1
  /\ eventCount' = eventCount + 1
  /\ lastEvent' = detail
  /\ onExecutedCalls' = <<>>
  /\ UNCHANGED <<nextUrl, loaderVars>>
  /\ UNCHANGED <<queueVars, compilerVars, widgetVars>>
  /\ UNCHANGED extraVars

\* lines 719-729: the b_preview_with_metadata handler. The previews stored
\* for the node are revoked, the url of the blob is created and stored.
PreviewWithMetadata(detail) ==
  /\ eventCount < MaxEvents
  /\ LET id == detail.displayNodeId
         blobUrl == nextUrl
     IN /\ liveUrls' =
             (liveUrls \ RevokedByExecutionId(previews, id)) \cup {blobUrl}
        /\ previews' = Put(Delete(previews, id), id, <<blobUrl>>)
        /\ nextUrl' = nextUrl + 1
  /\ eventCount' = eventCount + 1
  /\ lastEvent' = detail
  /\ onExecutedCalls' = <<>>
  /\ shownDialogs' = <<>>
  /\ canvasDraws' = 0
  /\ UNCHANGED <<nodeOutputs, lastExecutionError, domWidgets>>
  /\ UNCHANGED <<apiData, graph, loadStatus, missingNodesReport, graphData,
                 missingNodeTypes>>
  /\ UNCHANGED <<queueVars, compilerVars, widgetVars>>
  /\ UNCHANGED extraVars

\* revokePreviewsByExecutionId called by another user of the store: the
\* previews of the node are revoked and its entry is deleted
RevokePreviews(id) ==
  /\ eventCount < MaxEvents
  /\ id \in DOMAIN previews
  /\ liveUrls' = liveUrls \ RevokedByExecutionId(previews, id)
  /\ previews' = Delete(previews, id)
  /\ eventCount' = eventCount + 1
  /\ lastEvent' = [NoEvent EXCEPT !.type = "revoke", !.displayNodeId = id]
  /\ onExecutedCalls' = <<>>
  /\ shownDialogs' = <<>>
  /\ canvasDraws' = 0
  /\ UNCHANGED <<nextUrl, nodeOutputs, lastExecutionError, domWidgets>>
  /\ UNCHANGED <<apiData, graph, loadStatus, missingNodesReport, graphData,
                 missingNodeTypes>>
  /\ UNCHANGED <<queueVars, compilerVars, widgetVars>>
  /\ UNCHANGED extraVars

\* lines 1718-1727: clean()
Clean ==
  /\ eventCount < MaxEvents
  /\ nodeOutputs' = <<>>
  /\ previews' = <<>>
  /\ liveUrls' = liveUrls \ StoredUrls(previews)
  /\ lastNodeErrors' = "null"
  /\ lastExecutionError' = "null"
  /\ domWidgets' = {}
  /\ eventCount' = eventCount + 1
  /\ lastEvent' = [NoEvent EXCEPT !.type = "clean"]
  /\ onExecutedCalls' = <<>>
  /\ shownDialogs' = <<>>
  /\ canvasDraws' = 0
  /\ UNCHANGED <<nextUrl, dialogs>>
  /\ UNCHANGED <<apiData, graph, loadStatus, missingNodesReport, graphData,
                 missingNodeTypes>>
  /\ UNCHANGED <<queueOnlyVars, compilerVars, widgetVars>>
  /\ UNCHANGED extraVars

\* the app after a run that failed: the graph has two nodes, errors are
\* recorded, no output is cached; a document of one node can be loaded
EventsInit ==
  /\ environment = CHOOSE e \in Environments : e.store = "stores"
  /\ QueueOnlyAtRest
  /\ CompilerAtRest
  /\ WidgetAtRest
  /\ EventsAtRest
  /\ ExtraAtRest
  /\ apiData = <<>>
  /\ graph = EventGraph
  /\ loadStatus = "idle"
  /\ missingNodesReport = NoReport
  /\ graphData = [nodes |-> <<[id |-> 1, type |-> <<"LoadImage">>]>>,
                  malformed |-> FALSE]
  /\ missingNodeTypes = <<>>
  /\ nodeOutputs = <<>>
  /\ previews = <<>>
  /\ liveUrls = {}
  /\ lastNodeErrors = "errs"
  /\ lastExecutionError = "error"
  /\ domWidgets = {1}
  /\ dialogs = 0

EventsNext ==
  \/ \E detail \in ExecutedEvents : Executed(detail)
  \/ ExecutionStart
  \/ \E detail \in ExecutionErrorEvents(MaxMessage) : ExecutionError(detail)
  \/ \E detail \in PreviewEvents : PreviewWithMetadata(detail)
  \/ \E n \in EventNodeIds : RevokePreviews(ToString(n))
  \/ Clean
  \/ \E clean \in BOOLEAN : LoadGraphData(clean)
  \/ \E showMissingNodesDialog \in BOOLEAN :
       ConfigureGraph(showMissingNodesDialog)
  \/ AfterLoadNewGraph

SpecEvents == EventsInit /\ [][EventsNext]_vars

\* ------------------------------------------------------------------------
\* Properties of the event handlers
\* ------------------------------------------------------------------------

\* the step handles an event of the type
Handles(type) == eventCount' = eventCount + 1 /\ lastEvent'.type = type

\* the identifier of an executed event: the display node when there is one,
\* else the executing node, as a string
IdentifierOf(detail) ==
  IF detail.display_node = 0 THEN ToString(detail.node)
                             ELSE ToString(detail.display_node)

\* the entries of an output under a key, none when it has not the key
Entries(output, k) == IF k \in DOMAIN output THEN output[k] ELSE <<>>

\* merged has the entries of old and after them those of added, under
\* every key
AddedTo(old, added, merged) ==
  /\ DOMAIN merged = DOMAIN old \cup DOMAIN added
  /\ \A k \in DOMAIN merged :
       merged[k] = Entries(old, k) \o Entries(added, k)

\* C21: an executed event with merge true adds its output to the output
\* cached under its identifier, keeping the earlier entries; with merge false
\* or absent its output replaces the cached one; the outputs cached under
\* the other identifiers stay as they are.
C21_MergeOrReplace ==
  [][Handles("executed") =>
       LET detail == lastEvent'
           id == IdentifierOf(detail)
       IN /\ DOMAIN nodeOutputs' = DOMAIN nodeOutputs \cup {id}
          /\ \A other \in DOMAIN nodeOutputs \ {id} :
               nodeOutputs'[other] = nodeOutputs[other]
          /\ IF detail.merge = "true" /\ id \in DOMAIN nodeOutputs
               THEN AddedTo(nodeOutputs[id], detail.output, nodeOutputs'[id])
               ELSE nodeOutputs'[id] = detail.output]_vars

\* an event with merge true has added a second image to the output of node 1
C21_Witness ==
  /\ lastEvent.type = "executed"
  /\ lastEvent.merge = "true"
  /\ lastEvent.output = [images |-> <<"a">>]
  /\ "1" \in DOMAIN nodeOutputs
  /\ nodeOutputs["1"] = [images |-> <<"b", "a">>, text |-> <<"t">>]

\* C22: whatever previews arrived and were revoked, every node has at most
\* one url stored, no url is stored for two nodes, the url stored for the
\* node of a preview just handled is the one created for it, and the urls
\* that are live are exactly the stored ones: a url that was created and
\* is not stored has been revoked.
C22_OneLivePreview ==
  /\ \A id \in DOMAIN previews : Len(previews[id]) = 1
  /\ \A id, other \in DOMAIN previews :
       id # other => previews[id][1] # previews[other][1]
  /\ lastEvent.type = "b_preview_with_metadata" =>
       /\ lastEvent.displayNodeId \in DOMAIN previews
       /\ previews[lastEvent.displayNodeId] = <<nextUrl - 1>>
  /\ liveUrls = {previews[id][1] : id \in DOMAIN previews}

\* a preview of node 1 arrived and was revoked, and a new preview arrived
\* for it
C22_Witness ==
  /\ lastEvent.type = "b_preview_with_metadata"
  /\ lastEvent.displayNodeId = "1"
  /\ nextUrl = 3
  /\ eventCount = 3
  /\ liveUrls = {2}

\* C23: after clean(), called directly or by loadGraphData with clean not
\* false, the output cache is empty, no preview is stored, no url is live,
\* and the last node errors and the last execution error are null.
C23_CleanClearsAll ==
  [][Handles("clean") =>
       /\ nodeOutputs' = <<>>
       /\ previews' = <<>>
       /\ liveUrls' = {}
       /\ lastNodeErrors' = "null"
       /\ lastExecutionError' = "null"]_vars

\* loadGraphData has called clean() after an output was cached and a
\* preview stored
C23_Witness ==
  /\ lastEvent.type = "clean"
  /\ loadStatus = "beforeConfigureGraph"
  /\ eventCount = 3
  /\ nextUrl = 2
  /\ liveUrls = {}
  /\ nodeOutputs = <<>>

\* the message has the text
HasText(detail, text) ==
  detail.hasMessage /\
    text \in {detail.exception_message[k] :
                k \in 1..Len(detail.exception_message)}

\* C24: every execution_error event opens one dialog: the sign-in dialog
\* when the message has the login-required text, else the top-up dialog
\* when it has the payment-required text, else the execution-error dialog;
\* and the canvas is redrawn once.
C24_ErrorDialogRouting ==
  [][Handles("execution_error") =>
       LET detail == lastEvent'
       IN /\ Len(shownDialogs') = 1
          /\ HasText(detail, LoginRequired) =>
               shownDialogs'[1] = "apiNodesSignIn"
          /\ (~HasText(detail, LoginRequired)
                /\ HasText(detail, PaymentRequired)) =>
               shownDialogs'[1] = "topUpCredits"
          /\ (~HasText(detail, LoginRequired)
                /\ ~HasText(detail, PaymentRequired)) =>
               shownDialogs'[1] = "executionError"
          /\ canvasDraws' = 1]_vars

\* an error whose message has both texts opened the sign-in dialog
C24_Witness ==
  /\ lastEvent.type = "execution_error"
  /\ lastEvent.exception_message = <<PaymentRequired, LoginRequired>>
  /\ shownDialogs = <<"apiNodesSignIn">>
  /\ canvasDraws = 1

\* the output cache after the event is applied to it
AppliedToOutputs(detail, outputs) ==
  IF detail.type = "executed"
    THEN LET id == IdentifierOf(detail)
         IN [k \in DOMAIN outputs \cup {id} |->
               IF k # id THEN outputs[k]
               ELSE IF detail.merge = "true" /\ id \in DOMAIN outputs
                 THEN [name \in DOMAIN outputs[id] \cup DOMAIN detail.output |->
                         Entries(outputs[id], name) \o
                           Entries(detail.output, name)]
                 ELSE detail.output]
  ELSE IF detail.type = "clean" THEN <<>>
  ELSE outputs

\* the preview table after the event is applied to it; url is the url
\* created for a preview
AppliedToPreviews(detail, table, url) ==
  IF detail.type = "b_preview_with_metadata"
    THEN [k \in DOMAIN table \cup {detail.displayNodeId} |->
            IF k = detail.displayNodeId THEN <<url>> ELSE table[k]]
  ELSE IF detail.type = "revoke"
    THEN [k \in DOMAIN table \ {detail.displayNodeId} |-> table[k]]
  ELSE IF detail.type = "clean" THEN <<>>
  ELSE table

DefinesOnExecuted(g, id) ==
  \E k \in 1..Len(g.nodes) :
    /\ ToString(g.nodes[k].id) = id
    /\ g.nodes[k].type \in OnExecutedTypes

\* C29: every executed event writes its output to the cache under the
\* identifier String(display_node || node), whether the graph has a node
\* with that identifier or not; onExecuted is called once with the output
\* when the graph has such a node and the node defines it, and is not called
\* otherwise.
C29_ExecutedWritesAndCalls ==
  [][Handles("executed") =>
       LET detail == lastEvent'
           id == IdentifierOf(detail)
       IN /\ id \in DOMAIN nodeOutputs'
          /\ \A k \in DOMAIN detail.output :
               /\ k \in DOMAIN nodeOutputs'[id]
               /\ Len(nodeOutputs'[id][k]) >= Len(detail.output[k])
               /\ SubSeq(nodeOutputs'[id][k],
                         Len(nodeOutputs'[id][k]) - Len(detail.output[k]) + 1,
                         Len(nodeOutputs'[id][k])) = detail.output[k]
          /\ IF DefinesOnExecuted(graph, id)
               THEN /\ Len(onExecutedCalls') = 1
                    /\ ToString(onExecutedCalls'[1].id) = id
                    /\ onExecutedCalls'[1].output = detail.output
               ELSE onExecutedCalls' = <<>>]_vars

\* an event of node 2 with display node 1 wrote the output of node 1 and
\* called its onExecuted, after an event of node 3, which the graph has not,
\* wrote an output too
C29_Witness ==
  /\ lastEvent.type = "executed"
  /\ lastEvent.display_node = 1
  /\ lastEvent.node = 2
  /\ DOMAIN nodeOutputs = {"1", "3"}
  /\ Len(onExecutedCalls) = 1
  /\ onExecutedCalls[1].id = 1

\* ------------------------------------------------------------------------
\* SpecFile: the JSON branch of handleFile and isApiJson
\* ------------------------------------------------------------------------

\* the largest number of top-level values of the content
MaxValues == 2

\* a top-level value: an object with class_type "X", an object with
\* class_type "", an object without class_type, a number, or null
ValueKinds == {"api", "emptyType", "object", "number", "null"}

\* the objects of n top-level values in the order of Object.values;
\* templates is the position of the value of the key templates, 0 when
\* the object has not that key
JsonContents(n) ==
  {[isObject |-> TRUE, values |-> v, templates |-> t] :
     v \in [1..n -> ValueKinds], t \in 0..n}

\* a content that is no object: a number, a string, null
NonObjects == {[isObject |-> FALSE, values |-> <<>>, templates |-> 0]}

\* line 1531: Object.values(data).every((v) => v.class_type), from the
\* k-th value on. v.class_type of null throws a TypeError, of a number it
\* is undefined.
RECURSIVE EveryClassType(_, _)
EveryClassType(values, k) ==
  IF k > Len(values) THEN "true"
  ELSE IF values[k] = "null" THEN "throws"
  ELSE IF values[k] = "api" THEN EveryClassType(values, k + 1)
  ELSE "false"

\* lines 1530-1532: isApiJson(data)
IsApiJson(data) ==
  IF ~data.isObject THEN "false" ELSE EveryClassType(data.values, 1)

\* line 1489: jsonContent?.templates is truthy
HasTemplates(data) ==
  data.isObject /\ data.templates # 0 /\ data.values[data.templates] # "null"

\* a call of isApiJson with the content
IsApiJsonCall ==
  /\ apiJsonResult = "none"
  /\ apiJsonResult' = IsApiJson(jsonContent)
  /\ UNCHANGED <<jsonContent, fileRoute, modelVars, tripVars, overlapVars,
                 moreVars>>
  /\ UNCHANGED <<queueVars, compilerVars, widgetVars, loaderVars, eventVars>>

\* lines 1486-1501: reader.onload of the JSON branch of handleFile
ReaderOnload ==
  /\ fileRoute = "none"
  /\ fileRoute' =
       IF HasTemplates(jsonContent) THEN "loadTemplateData"
       ELSE IF IsApiJson(jsonContent) = "throws" THEN "throws"
       ELSE IF IsApiJson(jsonContent) = "true" THEN "loadApiJson"
       ELSE "loadGraphData"
  /\ UNCHANGED <<jsonContent, apiJsonResult, modelVars, tripVars,
                 overlapVars, moreVars>>
  /\ UNCHANGED <<queueVars, compilerVars, widgetVars, loaderVars, eventVars>>

FileInit ==
  /\ environment = CHOOSE e \in Environments : e.store = "stores"
  /\ QueueAtRest
  /\ CompilerAtRest
  /\ WidgetAtRest
  /\ LoaderAtRest
  /\ EventsAtRest
  /\ ModelsAtRest
  /\ TripAtRest
  /\ OverlapAtRest
  /\ MoreAtRest
  /\ \/ \E n \in 0..MaxValues : jsonContent \in JsonContents(n)
     \/ jsonContent \in NonObjects
  /\ apiJsonResult = "none"
  /\ fileRoute = "none"

FileNext == IsApiJsonCall \/ ReaderOnload

SpecFile == FileInit /\ [][FileNext]_vars

\* ------------------------------------------------------------------------
\* Properties of isApiJson
\* ------------------------------------------------------------------------

\* the content is an object and every top-level value is an object with a
\* truthy class_type
AllCarryClassType(data) ==
  data.isObject /\ \A k \in 1..Len(data.values) : data.values[k] = "api"

\* C28: isApiJson returns true for the objects all of whose top-level
\* values carry a truthy class_type and false for every other input; the
\* JSON branch loads the templates when the content has a templates field,
\* else the content as API format when isApiJson holds, else as graph
\* format.
C28_ClassifiesEveryInput ==
  /\ apiJsonResult # "none" =>
       apiJsonResult =
         IF AllCarryClassType(jsonContent) THEN "true" ELSE "false"
  /\ fileRoute # "none" =>
       fileRoute =
         IF HasTemplates(jsonContent) THEN "loadTemplateData"
         ELSE IF AllCarryClassType(jsonContent) THEN "loadApiJson"
         ELSE "loadGraphData"

\* ------------------------------------------------------------------------
\* SpecModels: the missing models of loadGraphData
\* ------------------------------------------------------------------------

\* the largest number of embedded models
MaxModels == 2

ModelNames == {"a.safetensors", "b.safetensors"}
Directories == {"checkpoints", "loras"}

\* the models of a document; "" is an absent url or hash
ModelFiles ==
  [name : ModelNames, directory : Directories, url : {"", "u"},
   hash : {"", "h"}]

\* the folders that the model store loaded, each with the names of its
\* files; a directory outside the domain has no loaded folder
ModelFolderIndexes ==
  UNION {[dirs -> {{}, {"a.safetensors"}}] : dirs \in SUBSET Directories}

\* line 1119: model.url || model.hash
GetModelKey(model) == IF model.url # "" THEN model.url ELSE model.hash

\* line 1121: _.uniqBy(models, getModelKey): the first model of each key
RECURSIVE UniqByKey(_, _)
UniqByKey(models, seen) ==
  IF models = <<>> THEN <<>>
  ELSE IF GetModelKey(Head(models)) \in seen
    THEN UniqByKey(Tail(models), seen)
    ELSE <<Head(models)>> \o
           UniqByKey(Tail(models), seen \cup {GetModelKey(Head(models))})

ModelExists_AnyFolder(folders, m) ==
  \E d \in DOMAIN folders : m.name \in folders[d]

\* lines 1130-1139: the folder of the directory of the model is loaded and
\* has a file of the name of the model
ModelExists(folders, m) ==
  m.directory \in DOMAIN folders /\ m.name \in folders[m.directory]

\* lines 1119-1142: the missingModels list. The mark directory_invalid that
\* line 1132 puts on a model without folder is left out.
MissingModels(models, folders, setting) ==
  LET validModels == SelectSeq(models, LAMBDA m : GetModelKey(m) # "")
      uniqueModels == UniqByKey(validModels, {})
  IN IF Len(uniqueModels) # 0 /\ setting
       THEN SelectSeq(uniqueModels, LAMBDA m : ~ModelExists(folders, m))
       ELSE <<>>

\* lines 1085-1142 of loadGraphData
CollectMissingModels ==
  /\ ~modelsChecked
  /\ missingModels' =
       MissingModels(embeddedModels, modelFolders, showMissingModelsWarning)
  /\ modelsChecked' = TRUE
  /\ UNCHANGED <<embeddedModels, modelFolders, showMissingModelsWarning,
                 fileVars, tripVars, overlapVars, moreVars>>
  /\ UNCHANGED <<queueVars, compilerVars, widgetVars, loaderVars, eventVars>>

ModelsInit ==
  /\ environment = CHOOSE e \in Environments : e.store = "stores"
  /\ QueueAtRest
  /\ CompilerAtRest
  /\ WidgetAtRest
  /\ LoaderAtRest
  /\ EventsAtRest
  /\ FileAtRest
  /\ TripAtRest
  /\ OverlapAtRest
  /\ MoreAtRest
  /\ \E n \in 0..MaxModels : embeddedModels \in [1..n -> ModelFiles]
  /\ modelFolders \in ModelFolderIndexes
  /\ showMissingModelsWarning \in BOOLEAN
  /\ modelsChecked = FALSE
  /\ missingModels = <<>>

ModelsNext == CollectMissingModels

SpecModels == ModelsInit /\ [][ModelsNext]_vars

\* ------------------------------------------------------------------------
\* Properties of the missing models
\* ------------------------------------------------------------------------

\* the models of the list
Listed(list) == {list[k] : k \in 1..Len(list)}

\* some loaded folder has a file of the name
InSomeFolder(name) == \E d \in DOMAIN modelFolders : name \in modelFolders[d]

\* the loaded folder of the directory has a file of the name
InOwnFolder(m) ==
  m.directory \in DOMAIN modelFolders /\ m.name \in modelFolders[m.directory]

\* the model has a url or a hash
HasKey(m) == m.url # "" \/ m.hash # ""

\* the k-th embedded model is the first of its key
FirstOfKey(k) ==
  \A j \in 1..(k - 1) :
    GetModelKey(embeddedModels[j]) # GetModelKey(embeddedModels[k])

MaxLoads == 2

LoadCalls == 1..MaxLoads

\* the documents that the calls load: one node each
OverlapDocuments ==
  {[nodes |-> <<[id |-> 1, type |-> <<type>>]>>, malformed |-> FALSE] :
     type \in {"LoadImage", "SaveImage"}}

\* a call that has not started
NoLoad ==
  [pc |-> "idle", doc |-> NoGraphData, validate |-> FALSE, models |-> FALSE]

\* lines 1144-1232 of the call: graph.configure with the patched document,
\* up to the await of the afterConfigureGraph hooks
ConfigureOf(call) ==
  /\ graph' = Configure(PatchedNodes(loads[call].doc.nodes))
  /\ configured' = Append(configured, call)
  /\ loads' = [loads EXCEPT ![call].pc = "afterConfigureGraph"]

\* lines 1035-1060 or 1035-1086: the call starts. handleFile does not await
\* loadGraphData (lines 1384-1406), so a call can start while another is
\* suspended. clean() runs, then the call is suspended at validateWorkflow
\* when the setting Comfy.Validation.Workflows is on, else at the
\* beforeConfigureGraph hooks. models: the document names models and the
\* missing models warning is on.
StartLoad(call, doc, validate, models) ==
  /\ loads[call].pc = "idle"
  /\ \A earlier \in 1..(call - 1) : loads[earlier].pc # "idle"
  /\ loads' = [loads EXCEPT ![call] =
                 [pc |-> IF validate THEN "validateWorkflow"
                                     ELSE "beforeConfigureGraph",
                  doc |-> doc, validate |-> validate, models |-> models]]
  /\ started' = Append(started, call)
  /\ nodeOutputs' = <<>>
  /\ previews' = <<>>
  /\ liveUrls' = liveUrls \ StoredUrls(previews)
  /\ lastNodeErrors' = "null"
  /\ lastExecutionError' = "null"
  /\ domWidgets' = {}
  /\ eventCount' = eventCount + 1
  /\ lastEvent' = [NoEvent EXCEPT !.type = "clean"]
  /\ UNCHANGED <<graph, configured, graphData, missingNodeTypes,
                 missingNodesReport, apiData, loadStatus, dialogs>>
  /\ UNCHANGED <<nextUrl, onExecutedCalls, shownDialogs, canvasDraws>>
  /\ UNCHANGED <<queueOnlyVars, compilerVars, widgetVars>>
  /\ UNCHANGED <<fileVars, modelVars, tripVars, moreVars>>

\* lines 1064-1086: validateWorkflow has settled; the call goes on to the
\* await of the beforeConfigureGraph hooks
WorkflowValidated(call) ==
  /\ loads[call].pc = "validateWorkflow"
  /\ loads' = [loads EXCEPT ![call].pc = "beforeConfigureGraph"]
  /\ UNCHANGED <<graph, started, configured>>
  /\ UNCHANGED <<graphData, missingNodeTypes, missingNodesReport, apiData,
                 loadStatus, appStateVars>>
  /\ UNCHANGED <<queueVars, compilerVars, widgetVars, eventVars>>
  /\ UNCHANGED <<fileVars, modelVars, tripVars, moreVars>>

\* lines 1092-1128 or 1092-1232: the beforeConfigureGraph hooks have
\* settled; the call goes on to the await of loadModelFolders when there are
\* models to look up, else it configures the graph
BeforeConfigureGraphDone(call) ==
  /\ loads[call].pc = "beforeConfigureGraph"
  /\ IF loads[call].models
       THEN /\ loads' = [loads EXCEPT ![call].pc = "loadModelFolders"]
            /\ UNCHANGED <<graph, configured>>
       ELSE ConfigureOf(call)
  /\ UNCHANGED started
  /\ UNCHANGED <<graphData, missingNodeTypes, missingNodesReport, apiData,
                 loadStatus, appStateVars>>
  /\ UNCHANGED <<queueVars, compilerVars, widgetVars, eventVars>>
  /\ UNCHANGED <<fileVars, modelVars, tripVars, moreVars>>

\* lines 1129-1232: the model folders are loaded and looked up; the call
\* configures the graph
ModelFoldersLoaded(call) ==
  /\ loads[call].pc = "loadModelFolders"
  /\ ConfigureOf(call)
  /\ UNCHANGED started
  /\ UNCHANGED <<graphData, missingNodeTypes, missingNodesReport, apiData,
                 loadStatus, appStateVars>>
  /\ UNCHANGED <<queueVars, compilerVars, widgetVars, eventVars>>
  /\ UNCHANGED <<fileVars, modelVars, tripVars, moreVars>>

\* lines 1233-1240: the afterConfigureGraph hooks and afterLoadNewGraph have
\* settled; the call ends
LoadEnds(call) ==
  /\ loads[call].pc = "afterConfigureGraph"
  /\ loads' = [loads EXCEPT ![call].pc = "loaded"]
  /\ UNCHANGED <<graph, started, configured>>
  /\ UNCHANGED <<graphData, missingNodeTypes, missingNodesReport, apiData,
                 loadStatus, appStateVars>>
  /\ UNCHANGED <<queueVars, compilerVars, widgetVars, eventVars>>
  /\ UNCHANGED <<fileVars, modelVars, tripVars, moreVars>>

OverlapInit ==
  /\ environment = CHOOSE e \in Environments : e.store = "stores"
  /\ QueueAtRest
  /\ CompilerAtRest
  /\ WidgetAtRest
  /\ LoaderAtRest
  /\ EventsAtRest
  /\ FileAtRest
  /\ ModelsAtRest
  /\ TripAtRest
  /\ MoreAtRest
  /\ loads = [call \in LoadCalls |-> NoLoad]
  /\ started = <<>>
  /\ configured = <<>>

OverlapNext ==
  \E call \in LoadCalls :
    \/ \E doc \in OverlapDocuments, validate \in BOOLEAN, models \in BOOLEAN :
         StartLoad(call, doc, validate, models)
    \/ WorkflowValidated(call)
    \/ BeforeConfigureGraphDone(call)
    \/ ModelFoldersLoaded(call)
    \/ LoadEnds(call)

SpecOverlap == OverlapInit /\ [][OverlapNext]_vars

\* ------------------------------------------------------------------------
\* Properties of the calls that overlap
\* ------------------------------------------------------------------------

\* the position of the call in the order of the starts
StartIndex(call) == CHOOSE k \in 1..Len(started) : started[k] = call

\* C27: a load is superseded by a load that starts later: no call
\* configures the graph after a call that started after it has, and when
\* all the calls that started have ended the graph is the one of the
\* document of the call that started last.
C27_LaterLoadSupersedes ==
  /\ \A j, k \in 1..Len(configured) :
       j < k => StartIndex(configured[j]) < StartIndex(configured[k])
  /\ (Len(started) >= 2 /\ \A call \in LoadCalls :
                             loads[call].pc \in {"idle", "loaded"}) =>
       graph = Configure(PatchedNodes(loads[started[Len(started)]].doc.nodes))

\* ------------------------------------------------------------------------
\* SpecRoundTrip: graphToPrompt followed by loadApiJson of its output
\* ------------------------------------------------------------------------

\* the largest number of nodes of the graph that is compiled
MaxTripNodes == 2

\* the types of the nodes of the graph; FooBar is not registered (a node
\* that loadGraphData kept though its type is missing)
TripTypes == {"SaveImage", "SVD_img2vid_Conditioning", "FooBar"}

\* the input and output slots of a node of the type
SlotsOf(type) ==
  IF type \in RegisteredNodeTypes
    THEN [inputs |-> Len(NodeDefs[type].inputs),
          outputs |-> NodeDefs[type].outputs]
    ELSE [inputs |-> 0, outputs |-> 0]

\* what is chosen for every node: its type, its mode, and at most one link
\* into its first or last input from the first or last output of another
\* node (from 0: no link)
TripChoices(n) ==
  [type : TripTypes, mode : NodeModes, toLast : BOOLEAN, from : 0..n,
   fromLast : BOOLEAN]

\* the choices that describe a graph
TripDescriptions(n) ==
  {d \in [1..n -> TripChoices(n)] :
     \A id \in 1..n :
       IF d[id].from = 0
         THEN ~d[id].toLast /\ ~d[id].fromLast
         ELSE /\ d[id].from # id
              /\ SlotsOf(d[id].type).inputs > 0
              /\ SlotsOf(d[d[id].from].type).outputs > 0}

\* the node of the graph for a choice
TripNode(id, choice) ==
  IF choice.type \in RegisteredNodeTypes
    THEN CreateNode(id, choice.type)
    ELSE [id |-> id, type |-> <<choice.type>>, inputs |-> <<>>,
          widgets |-> <<>>, outputs |-> 0]

\* the graph with the links of the nodes id..n of the description added
RECURSIVE TripLinks(_, _, _, _)
TripLinks(g, d, id, n) ==
  IF id > n THEN g
  ELSE IF d[id].from = 0 THEN TripLinks(g, d, id + 1, n)
  ELSE TripLinks(
         Connect(g, d[id].from,
                 IF d[id].fromLast
                   THEN SlotsOf(d[d[id].from].type).outputs - 1 ELSE 0,
                 id,
                 IF d[id].toLast THEN SlotsOf(d[id].type).inputs - 1 ELSE 0),
         d, id + 1, n)

\* the nodes 1..n of the description, in the order of their ids
RECURSIVE TripNodes(_, _)
TripNodes(d, n) ==
  IF n = 0 THEN <<>> ELSE Append(TripNodes(d, n - 1), TripNode(n, d[n]))

\* the graph that the description describes
TripGraph(d, n) ==
  TripLinks([nodes |-> TripNodes(d, n), links |-> <<>>, last_link_id |-> 0],
            d, 1, n)

\* the link of the graph with the id
LinkOf(g, id) == CHOOSE l \in {g.links[k] : k \in 1..Len(g.links)} : l.id = id

\* the connected inputs of the node from its k-th input slot on, as
\* [origin_id, origin_slot]; an input connected to a node in mode never is
\* left out
RECURSIVE LinkInputs(_, _, _, _)
LinkInputs(g, m, node, k) ==
  IF k > Len(node.inputs) THEN <<>>
  ELSE LET inp == node.inputs[k]
       IN IF inp.link # 0 /\ m[LinkOf(g, inp.link).origin_id] # "never"
            THEN <<[name |-> inp.name, array |-> TRUE,
                    fromId |-> LinkOf(g, inp.link).origin_id,
                    fromSlot |-> LinkOf(g, inp.link).origin_slot]>> \o
                 LinkInputs(g, m, node, k + 1)
            ELSE LinkInputs(g, m, node, k + 1)

\* the inputs of the entry of a node: its widgets with their values, then
\* its connected inputs
EntryInputs(g, m, node) ==
  [k \in 1..Len(node.widgets) |-> Literal(node.widgets[k].name)] \o
  LinkInputs(g, m, node, 1)

\* the entries of the nodes from position pos on that are not in mode never
RECURSIVE EntriesFrom(_, _, _)
EntriesFrom(g, m, pos) ==
  IF pos > Len(g.nodes) THEN <<>>
  ELSE IF m[g.nodes[pos].id] = "never" THEN EntriesFrom(g, m, pos + 1)
  ELSE <<[id |-> g.nodes[pos].id, class_type |-> g.nodes[pos].type[1],
          inputs |-> EntryInputs(g, m, g.nodes[pos])]>> \o
       EntriesFrom(g, m, pos + 1)

\* lines 1242-1250, graphToPrompt: the output of the prompt as the document
\* that loadApiJson reads, one entry for every node that is not in mode
\* never, in the order of graph.nodes
GraphToApiData(g, m) == EntriesFrom(g, m, 1)

\* the graph is compiled and the output is kept for loadApiJson
CompileForReload ==
  /\ ~compiledFrom.done
  /\ loadStatus = "idle"
  /\ apiData' = GraphToApiData(graph, modes)
  /\ compiledFrom' = [done |-> TRUE, nodes |-> graph.nodes,
                      links |-> graph.links, modes |-> modes]
  /\ UNCHANGED <<modes, graph, loadStatus, missingNodesReport, graphData,
                 missingNodeTypes, appStateVars>>
  /\ UNCHANGED <<queueVars, compilerVars, widgetVars, eventVars>>
  /\ UNCHANGED <<fileVars, modelVars, overlapVars, moreVars>>

TripInit ==
  /\ environment = CHOOSE e \in Environments : e.store = "stores"
  /\ QueueAtRest
  /\ CompilerAtRest
  /\ WidgetAtRest
  /\ GraphLoaderAtRest
  /\ EventsAtRest
  /\ FileAtRest
  /\ ModelsAtRest
  /\ OverlapAtRest
  /\ MoreAtRest
  /\ apiData = <<>>
  /\ loadStatus = "idle"
  /\ missingNodesReport = NoReport
  /\ \E n \in 1..MaxTripNodes :
       \E d \in TripDescriptions(n) :
         /\ graph = TripGraph(d, n)
         /\ modes = [id \in 1..n |-> d[id].mode]
  /\ compiledFrom = [done |-> FALSE, nodes |-> <<>>, links |-> <<>>,
                     modes |-> <<>>]

TripNext == CompileForReload \/ LoadApiJson

SpecRoundTrip == TripInit /\ [][TripNext]_vars

\* ------------------------------------------------------------------------
\* Properties of the round trip
\* ------------------------------------------------------------------------

\* the round trip was made: the graph was compiled and its prompt loaded
TripMade == compiledFrom.done /\ loadStatus # "idle"

\* the number of nodes of the type
TypeCount(nodes, type) ==
  Cardinality({k \in 1..Len(nodes) : nodes[k].type = type})

\* the name of the input slot that the link ends in
TargetName(nodes, l) ==
  LET n == CHOOSE k \in 1..Len(nodes) : nodes[k].id = l.target_id
  IN nodes[n].inputs[l.target_slot + 1].name

\* the two links join the same nodes on the same output slot and the same
\* input name
SameConnection(nodesA, a, nodesB, b) ==
  /\ a.origin_id = b.origin_id
  /\ a.origin_slot = b.origin_slot
  /\ a.target_id = b.target_id
  /\ TargetName(nodesA, a) = TargetName(nodesB, b)

\* the links of a sequence
LinkSet(links) == {links[k] : k \in 1..Len(links)}

\* the nodes of the compiled graph that are not in mode never
Executed26 ==
  SelectSeq(compiledFrom.nodes,
            LAMBDA node : compiledFrom.modes[node.id] # "never")

EditedGraph ==
  [OldGraph EXCEPT !.nodes[1].widgets[1].value = "edited"]

\* the graphs that app.graph goes through
LiveGraphs == {OldGraph, EditedGraph}

\* the user edits app.graph, or a load replaces its content
EditGraph ==
  /\ active = 0
  /\ \E g \in LiveGraphs \ {graph} : graph' = g
  /\ UNCHANGED <<apiData, loadStatus, missingNodesReport, graphData,
                 missingNodeTypes, appStateVars>>
  /\ UNCHANGED <<queueVars, compilerVars, widgetVars, eventVars, extraVars>>

\* a signed-in user whose submissions are stored
LiveInit ==
  /\ Init
  /\ environment.store = "stores"

\* the steps of runs in which nothing fails, and the edits
LiveNext ==
  \/ \E c \in Calls, a \in Arguments, f \in NodeIdFilters :
       QueuePrompt(c, a.number, a.batchCount, f)
  \/ \E c \in Calls : TokenResolve(c)
  \/ \E c \in Calls : WhilePop(c)
  \/ \E c \in Calls : WhileExit(c)
  \/ \E c \in Calls : ForTest(c)
  \/ \E c \in Calls : BeforeQueued(c)
  \/ \E c \in Calls : CompileResolve(c)
  \/ \E c \in Calls : SubmitResolve(c, "undefined")
  \/ \E c \in Calls : AfterQueued(c)
  \/ \E c \in Calls : UpdateResolve(c)
  \/ EditGraph

SpecLive == LiveInit /\ [][LiveNext]_vars

\* the fields of the items of the pending list
ItemFields == {"number", "batchCount", "queueNodeIds"}

\* C37: an item holds number, batchCount and queueNodeIds and nothing of
\* the graph (the field call belongs to the model), and the prompt given to
\* api.queuePrompt is compiled from app.graph as it is while the
\* repetition runs, between the call of graphToPrompt and its resolution,
\* whatever the graph was when the item was appended.
C37_CompiledFromLiveGraph ==
  [][/\ \A k \in 1..Len(queueItems') :
          DOMAIN queueItems'[k] \ {"call"} = ItemFields
     /\ \A c \in Calls :
          /\ (pc[c] = "before" /\ pc'[c] = "awaitCompile") =>
               compileGraph' = graph
          /\ (pc[c] = "awaitCompile" /\ pc'[c] = "awaitSubmit") =>
               /\ submittedGraph' \in {compileGraph, graph}
               /\ (compileGraph = graph) => submittedGraph' = graph
    ]_vars

\* the second repetition of an item has submitted a prompt compiled from
\* the graph as it is now, which has changed since the item was appended
C37_Witness ==
  \E c \in Calls :
    /\ pc[c] = "awaitSubmit"
    /\ i[c] = 1
    /\ queuedGraph[cur[c].call] = OldGraph
    /\ graph = EditedGraph
    /\ submittedGraph = EditedGraph

\* ------------------------------------------------------------------------
\* SpecHandle: the branches of handleFile for the files with metadata
\* ------------------------------------------------------------------------
\* lines 1353-1528. The metadata readers (getPngMetadata and the others)
\* are outside this file: a file is described by the branch that its type
\* and name select and by which of the fields workflow, prompt and
\* parameters its reader returns with a truthy value. The JSON branch is
\* the subject of SpecFile.

\* the branches of lines 1361-1480 and 1503-1527, in their order
FileKinds ==
  {"png", "avif", "webp", "mp3", "ogg", "flac", "webm", "mp4", "svg", "glb",
   "latent", "other"}

\* the kinds with a branch of their own
SupportedKinds == FileKinds \ {"other"}

Files == [kind : FileKinds, workflow : BOOLEAN, prompt : BOOLEAN,
          parameters : BOOLEAN]

\* lines 1361-1527: what handleFile calls for the file; "nothing" when it
\* returns without a call
HandleFileBranch(f) ==
  IF f.kind = "other" THEN "showErrorOnFileLoad"
  ELSE IF f.workflow THEN "loadGraphData"
  ELSE IF f.prompt THEN "loadApiJson"
  ELSE IF f.kind = "png" /\ f.parameters THEN "importA1111"
  ELSE IF f.kind = "mp4" THEN "nothing"
  ELSE "showErrorOnFileLoad"

\* a call of handleFile
HandleFile ==
  /\ fileLoad = "none"
  /\ fileLoad' = HandleFileBranch(file)
  /\ file' = file
  /\ UNCHANGED <<fileVars, modelVars, tripVars, overlapVars, liveVars,
                 configureVars>>
  /\ UNCHANGED <<queueVars, compilerVars, widgetVars, loaderVars, eventVars>>

HandleInit ==
  /\ environment = CHOOSE e \in Environments : e.store = "stores"
  /\ QueueAtRest
  /\ CompilerAtRest
  /\ WidgetAtRest
  /\ LoaderAtRest
  /\ EventsAtRest
  /\ FileAtRest
  /\ ModelsAtRest
  /\ TripAtRest
  /\ OverlapAtRest
  /\ LiveAtRest
  /\ ConfigureAtRest
  /\ file \in Files
  /\ fileLoad = "none"

HandleNext == HandleFile

SpecHandle == HandleInit /\ [][HandleNext]_vars

\* C33: for a file of every supported kind, handleFile loads the workflow
\* when the file has one, else the prompt when it has one, else (PNG) the
\* parameters when it has them, and else it reports a file-load error: it
\* never returns without one of these.
C33_WorkflowFirstElseError ==
  (fileLoad # "none" /\ file.kind \in SupportedKinds) =>
    /\ fileLoad # "nothing"
    /\ file.workflow => fileLoad = "loadGraphData"
    /\ (~file.workflow /\ file.prompt) => fileLoad = "loadApiJson"
    /\ (~file.workflow /\ ~file.prompt
          /\ ~(file.kind = "png" /\ file.parameters)) =>
         fileLoad = "showErrorOnFileLoad"

\* ------------------------------------------------------------------------
\* SpecConfigure: the wrapper that #addConfigureHandler puts around
\* LGraph.prototype.configure
\* ------------------------------------------------------------------------
\* lines 166-169 and 735-746. The original configure is outside this file:
\* while it runs it may call configure of another graph (a subgraph), it
\* may throw, and it may catch an exception of a call it made.

\* the deepest nesting of configure calls
MaxNesting == 3
\* the largest number of configure calls made
MaxConfigureCalls == 4

\* the graphs that are configured
ConfiguredGraphs == {"root", "subgraph"}

\* lines 167-169: get configuringGraph()
ConfiguringGraph == configuringGraphLevel > 0

\* the configure calls made so far
ConfigureCalls == Len(configureLog) + Len(configureStack)

\* lines 738-740: configure of graph g is called: the level is raised and
\* the original configure begins
ConfigureEnter(g) ==
  /\ ~pendingError
  /\ Len(configureStack) < MaxNesting
  /\ ConfigureCalls < MaxConfigureCalls
  /\ configuringGraphLevel' = configuringGraphLevel + 1
  /\ configureStack' =
       Append(configureStack, [graph |-> g, found |-> configuringGraphLevel])
  /\ UNCHANGED <<pendingError, configureLog>>
  /\ UNCHANGED <<fileVars, modelVars, tripVars, overlapVars, liveVars,
                 handleVars>>
  /\ UNCHANGED <<queueVars, compilerVars, widgetVars, loaderVars, eventVars>>

\* lines 741-744: the original configure of the innermost call returns and
\* the finally clause lowers the level
ConfigureReturn ==
  /\ ~pendingError
  /\ configureStack # <<>>
  /\ configuringGraphLevel' = configuringGraphLevel - 1
  /\ configureStack' = SubSeq(configureStack, 1, Len(configureStack) - 1)
  /\ configureLog' = Append(configureLog, "returned")
  /\ UNCHANGED pendingError
  /\ UNCHANGED <<fileVars, modelVars, tripVars, overlapVars, liveVars,
                 handleVars>>
  /\ UNCHANGED <<queueVars, compilerVars, widgetVars, loaderVars, eventVars>>

\* faulty variant of ConfigureThrow: the level is lowered after the call
\* and not in a finally clause
ConfigureThrow_NoFinally ==
  /\ configureStack # <<>>
  /\ configuringGraphLevel' = configuringGraphLevel
  /\ configureStack' = SubSeq(configureStack, 1, Len(configureStack) - 1)
  /\ configureLog' = Append(configureLog, "threw")
  /\ pendingError' = TRUE
  /\ UNCHANGED <<fileVars, modelVars, tripVars, overlapVars, liveVars,
                 handleVars>>
  /\ UNCHANGED <<queueVars, compilerVars, widgetVars, loaderVars, eventVars>>

\* lines 741-744: the original configure of the innermost call throws, or
\* lets through the exception of a call it made: the finally clause lowers
\* the level and the exception goes on to the caller
ConfigureThrow ==
  /\ configureStack # <<>>
  /\ configuringGraphLevel' = configuringGraphLevel - 1
  /\ configureStack' = SubSeq(configureStack, 1, Len(configureStack) - 1)
  /\ configureLog' = Append(configureLog, "threw")
  /\ pendingError' = TRUE
  /\ UNCHANGED <<fileVars, modelVars, tripVars, overlapVars, liveVars,
                 handleVars>>
  /\ UNCHANGED <<queueVars, compilerVars, widgetVars, loaderVars, eventVars>>

\* the caller catches the exception: the enclosing configure, or the code
\* that called the outermost one (the try of line 1144)
ConfigureCaught ==
  /\ pendingError
  /\ pendingError' = FALSE
  /\ UNCHANGED <<configuringGraphLevel, configureStack, configureLog>>
  /\ UNCHANGED <<fileVars, modelVars, tripVars, overlapVars, liveVars,
                 handleVars>>
  /\ UNCHANGED <<queueVars, compilerVars, widgetVars, loaderVars, eventVars>>

ConfigureInit ==
  /\ environment = CHOOSE e \in Environments : e.store = "stores"
  /\ QueueAtRest
  /\ CompilerAtRest
  /\ WidgetAtRest
  /\ LoaderAtRest
  /\ EventsAtRest
  /\ FileAtRest
  /\ ModelsAtRest
  /\ TripAtRest
  /\ OverlapAtRest
  /\ LiveAtRest
  /\ HandleAtRest
  /\ ConfigureAtRest

ConfigureNext ==
  \/ \E g \in ConfiguredGraphs : ConfigureEnter(g)
  \/ ConfigureReturn
  \/ ConfigureThrow
  \/ ConfigureCaught

SpecConfigure == ConfigureInit /\ [][ConfigureNext]_vars

\* a configure call ends in this step
ConfigureEnds == Len(configureStack') < Len(configureStack)

\* C40: the level is never negative; it is the number of the configure
\* calls in progress, so that configuringGraph is true exactly while there
\* is one; and the step in which a call ends, by returning or by an
\* exception, nested or not, puts the level back to the value that the
\* call found.
C40_LevelCountsCalls ==
  [][/\ configuringGraphLevel' >= 0
     /\ configuringGraphLevel' = Len(configureStack')
     /\ (configuringGraphLevel' > 0) <=> (configureStack' # <<>>)
     /\ ConfigureEnds =>
          configuringGraphLevel' =
            configureStack[Len(configureStack)].found
    ]_vars

\* a configure call is in progress at level 1 after two others have
\* ended, the second of them by an exception that was caught
C40_Witness ==
  /\ Len(configureStack) = 1
  /\ configuringGraphLevel = 1
  /\ ConfiguringGraph
  /\ ~pendingError
  /\ Len(configureLog) = 2
  /\ configureLog[2] = "threw"

====
